---- MODULE Spec2Model ----
(***************************************************************************)
(* Model of the Tree type of proptree.cpp: a Python object that wraps a    *)
(* boost::property_tree::ptree.  A ptree is a string (data) and a          *)
(* multi-index container of (key, ptree) pairs with two indices: the       *)
(* sequenced index (the children order) and an ordered non-unique index on *)
(* the key, in which children with the same key stand in the order they    *)
(* were linked into the container.                                         *)
(*                                                                         *)
(* A node is [data, kids]; kids is the sequenced index, a sequence of      *)
(* entries [key, ord, node].  ord is the entry's place among the siblings  *)
(* with the same key in the order of linking (1 = linked first), so the    *)
(* ordered index is the entries sorted by (key, ord).                      *)
(***************************************************************************)
EXTENDS Integers, Sequences, FiniteSets, TLC

VARIABLES
    tree,       \* the ptree owned by the Tree object `self` (self->obj)
    pre,        \* *self->obj as it was when the last call was entered
    op,         \* the last call on self: its name and arguments
    ret,        \* what the last call returned or raised
    reordered,  \* an insert or reverse has acted on self since it was built
    aborted,    \* the process was ended by a failed BOOST_ASSERT
    other       \* a second Tree object `b` the program holds

vars == <<tree, pre, op, ret, reordered, aborted, other>>

(* ---- bounds of the exploration ---- *)

\* most nodes below the root of a tree
MaxNodes == 3

\* most nodes below the root of the second Tree object for a call on it to
\* add one
MaxOther == 2

\* the nodes below a root that the memory of the process has room for
MaxHeap == 8

(* ---- inputs ---- *)

Delim == "."

\* keys the calls are made with; "" is the key of a JSON array element
Keys == {"a", "b"}

AllKeys == Keys \cup {""}

\* a key that holds the separator
DottedKey == "a.b"

\* std::less<std::string> on the keys above
KeyRank(k) ==
    CASE k = "" -> 0 [] k = "a" -> 1 [] k = DottedKey -> 2 [] k = "b" -> 3 [] k = "c" -> 4

Leaf(d) == [data |-> d, kids |-> <<>>]

Entry(k, o, n) == [key |-> k, ord |-> o, node |-> n]

\* path strings, a sequence of characters: a key is one character and Delim
\* separates the segments.  "", "a", "b", "a.a", "a.b", "a." and ".a"
Paths ==
    {<<>>, <<"a">>, <<"b">>, <<"a", Delim, "a">>, <<"a", Delim, "b">>,
     <<"a", Delim>>, <<Delim, "a">>}

(* ---- the ptree ---- *)

Size(n) == Len(n.kids)

\* number of nodes below n
RECURSIVE NodeCount(_)
NodeCount(n) ==
    IF n.kids = <<>> THEN 0
    ELSE 1 + NodeCount(Head(n.kids).node) + NodeCount([n EXCEPT !.kids = Tail(@)])

\* what operator== of ptree looks at: data and the sequenced children
RECURSIVE Plain(_)
Plain(n) ==
    [data |-> n.data,
     kids |-> [i \in 1..Len(n.kids) |->
                 [key |-> n.kids[i].key, node |-> Plain(n.kids[i].node)]]]

\* an equality that does not look at the order of the children
TreeEq_Unordered(a, b) ==
    /\ a.data = b.data
    /\ Size(a) = Size(b)
    /\ \A i \in 1..Size(a) :
          Cardinality({j \in 1..Size(a) : Plain(a).kids[j] = Plain(a).kids[i]})
              = Cardinality({j \in 1..Size(b) : Plain(b).kids[j] = Plain(a).kids[i]})

TreeEq(a, b) == Plain(a) = Plain(b)

\* positions of the children with key k
Matching(n, k) == {i \in 1..Size(n) : n.kids[i].key = k}

\* ptree::count(key)
CountKey(n, k) == Cardinality(Matching(n, k))

\* find taking the last entry of the equal range instead of the first
FindPos_Last(n, k) ==
    LET m == Matching(n, k)
    IN IF m = {} THEN 0
       ELSE CHOOSE i \in m : \A j \in m : n.kids[i].ord >= n.kids[j].ord

\* ptree::find(key): the first entry with the key in the ordered index, as a
\* position of the sequenced index; 0 stands for not_found()
FindPos(n, k) ==
    LET m == Matching(n, k)
    IN IF m = {} THEN 0
       ELSE CHOOSE i \in m : \A j \in m : n.kids[i].ord <= n.kids[j].ord

\* ptree::push_back: linked last in both indices
PushBack(n, k, v) == [n EXCEPT !.kids = Append(@, Entry(k, CountKey(n, k) + 1, v))]

\* insert with the iterator advanced one step too few
InsertAt_OneBefore(n, i, k, v) ==
    LET j == IF i > 0 THEN i - 1 ELSE 0
    IN [n EXCEPT !.kids = SubSeq(@, 1, j) \o <<Entry(k, CountKey(n, k) + 1, v)>>
                            \o SubSeq(@, j + 1, Len(@))]

\* ptree::insert(iterator, pair): before position i + 1 of the sequenced index,
\* and after every equal key of the ordered index
InsertAt(n, i, k, v) ==
    [n EXCEPT !.kids = SubSeq(@, 1, i) \o <<Entry(k, CountKey(n, k) + 1, v)>>
                         \o SubSeq(@, i + 1, Len(@))]

\* ptree::erase(iterator): unlinks one entry from both indices
EraseAt(n, i) ==
    LET o == n.kids[i].ord
        keep == SubSeq(n.kids, 1, i - 1) \o SubSeq(n.kids, i + 1, Len(n.kids))
    IN [n EXCEPT !.kids =
          [j \in 1..Len(keep) |->
             IF keep[j].key = n.kids[i].key /\ keep[j].ord > o
             THEN [keep[j] EXCEPT !.ord = @ - 1] ELSE keep[j]]]

\* erase(key) erasing only the entry find(key) gives
EraseKey_FirstOnly(n, k) ==
    IF FindPos(n, k) = 0 THEN [tree |-> n, count |-> 0]
    ELSE [tree |-> EraseAt(n, FindPos(n, k)), count |-> 1]

\* ptree::erase(key): erases the equal range of the ordered index, counting
RECURSIVE EraseKey(_, _)
EraseKey(n, k) ==
    LET i == FindPos(n, k)
    IN IF i = 0 THEN [tree |-> n, count |-> 0]
       ELSE LET r == EraseKey(EraseAt(n, i), k)
            IN [tree |-> r.tree, count |-> r.count + 1]

\* the first position of the sequenced index whose key is k, 0 when there is none
FirstInOrder(n, k) ==
    LET m == Matching(n, k)
    IN IF m = {} THEN 0 ELSE CHOOSE i \in m : \A j \in m : i <= j

\* ptree::reverse: relinks the sequenced index only
Reverse(n) == [n EXCEPT !.kids = [i \in 1..Len(@) |-> @[Len(@) + 1 - i]]]

\* a sort that puts an entry before the entries with an equal key
RECURSIVE SortKids_Unstable(_)
SortKids_Unstable(s) ==
    IF s = <<>> THEN <<>>
    ELSE LET r == SortKids_Unstable(SubSeq(s, 1, Len(s) - 1))
             e == s[Len(s)]
             i == Cardinality({j \in 1..Len(r) : KeyRank(r[j].key) < KeyRank(e.key)})
         IN SubSeq(r, 1, i) \o <<e>> \o SubSeq(r, i + 1, Len(r))

\* list sort of the sequenced index by key: stable, the ordered index untouched
RECURSIVE SortKids(_)
SortKids(s) ==
    IF s = <<>> THEN <<>>
    ELSE LET r == SortKids(SubSeq(s, 1, Len(s) - 1))
             e == s[Len(s)]
             i == Cardinality({j \in 1..Len(r) : KeyRank(r[j].key) <= KeyRank(e.key)})
         IN SubSeq(r, 1, i) \o <<e>> \o SubSeq(r, i + 1, Len(r))

\* ptree::sort()
Sort(n) == [n EXCEPT !.kids = SortKids(@)]

\* the order of the ordered index: by key, equal keys in the order of linking
Before(e, f) ==
    \/ KeyRank(e.key) < KeyRank(f.key)
    \/ e.key = f.key /\ e.ord < f.ord

\* an ordered index in which equal keys stand in children order
OrderedIndex_ByPosition(n) ==
    [r \in 1..Size(n) |->
       CHOOSE i \in 1..Size(n) :
          Cardinality({j \in 1..Size(n) :
                          \/ KeyRank(n.kids[j].key) < KeyRank(n.kids[i].key)
                          \/ n.kids[j].key = n.kids[i].key /\ j < i}) = r - 1]

\* the ordered index from ordered_begin() on, each entry as its position in
\* the sequenced index; not_found() is the place after the last
OrderedIndex(n) ==
    [r \in 1..Size(n) |->
       CHOOSE i \in 1..Size(n) :
          Cardinality({j \in 1..Size(n) : Before(n.kids[j], n.kids[i])}) = r - 1]

\* an equal range that ends after its first entry
EqualRange_First(n, k) ==
    LET lower == Cardinality({j \in 1..Size(n) : KeyRank(n.kids[j].key) < KeyRank(k)}) + 1
    IN [first |-> lower, second |-> IF CountKey(n, k) = 0 THEN lower ELSE lower + 1]

\* ptree::equal_range(key): lower and upper bound of the key, as places of
\* the ordered index
EqualRange(n, k) ==
    LET lower == Cardinality({j \in 1..Size(n) : KeyRank(n.kids[j].key) < KeyRank(k)}) + 1
    IN [first |-> lower, second |-> lower + CountKey(n, k)]

(* ---- paths: string_path and the path walks of ptree ---- *)

\* std::find(m_start, m_value.end(), m_separator), Len(p) + 1 standing for end()
SepPos(p) ==
    IF \E i \in 1..Len(p) : p[i] = Delim
    THEN CHOOSE i \in 1..Len(p) : p[i] = Delim /\ \A j \in 1..(i - 1) : p[j] # Delim
    ELSE Len(p) + 1

\* string_path::empty and string_path::single of the part not yet consumed
PathEmpty(p) == p = <<>>

PathSingle(p) == SepPos(p) = Len(p) + 1

\* string_path::reduce: the key up to the next separator (keys being one
\* character, the part is that character or the empty string) ...
ReduceKey(p) == IF SepPos(p) = 1 THEN "" ELSE p[1]

\* ... and the path that is left, the separator skipped
ReduceRest(p) == SubSeq(p, SepPos(p) + 1, Len(p))

\* the node at the positions `at` below n
RECURSIVE NodeAt(_, _)
NodeAt(n, at) == IF at = <<>> THEN n ELSE NodeAt(n.kids[Head(at)].node, Tail(at))

\* n with the node at positions `at` replaced by m
RECURSIVE ReplaceAt(_, _, _)
ReplaceAt(n, at, m) ==
    IF at = <<>> THEN m
    ELSE [n EXCEPT !.kids[Head(at)].node = ReplaceAt(@, Tail(at), m)]

\* a walk that finds nothing for the empty path
RECURSIVE WalkPath_EmptyUnresolved(_, _)
WalkPath_EmptyUnresolved(n, p) ==
    IF PathEmpty(p) THEN [found |-> FALSE, at |-> <<>>]
    ELSE LET i == FindPos(n, ReduceKey(p))
         IN IF i = 0 THEN [found |-> FALSE, at |-> <<>>]
            ELSE IF PathEmpty(ReduceRest(p)) THEN [found |-> TRUE, at |-> <<i>>]
            ELSE LET r == WalkPath_EmptyUnresolved(n.kids[i].node, ReduceRest(p))
                 IN [found |-> r.found, at |-> <<i>> \o r.at]

\* ptree::walk_path: the positions of the node the path leads to, found
\* being FALSE where walk_path returns 0
RECURSIVE WalkPath(_, _)
WalkPath(n, p) ==
    IF PathEmpty(p) THEN [found |-> TRUE, at |-> <<>>]
    ELSE LET i == FindPos(n, ReduceKey(p))
         IN IF i = 0 THEN [found |-> FALSE, at |-> <<>>]
            ELSE LET r == WalkPath(n.kids[i].node, ReduceRest(p))
                 IN [found |-> r.found, at |-> <<i>> \o r.at]

\* ptree::force_path compiled with NDEBUG: the tree with the missing parents
\* pushed back, the positions of the parent and the path left for the caller
RECURSIVE ForcePath(_, _)
ForcePath(n, p) ==
    IF PathSingle(p) THEN [tree |-> n, at |-> <<>>, rest |-> p]
    ELSE LET i == FindPos(n, ReduceKey(p))
             n1 == IF i = 0 THEN PushBack(n, ReduceKey(p), Leaf("")) ELSE n
             j == IF i = 0 THEN Size(n1) ELSE i
             r == ForcePath(n1.kids[j].node, ReduceRest(p))
         IN [tree |-> [n1 EXCEPT !.kids[j].node = r.tree],
             at |-> <<j>> \o r.at,
             rest |-> r.rest]

\* BOOST_ASSERT(!p.empty()) of force_path and of reduce fails: the path is
\* empty or ends with the separator
AssertFails(p) == PathEmpty(ForcePath(Leaf(""), p).rest)

\* ptree::put_child: the tree and the positions of the node put
PutChild(n, p, v) ==
    LET f == ForcePath(n, p)
        parent == NodeAt(f.tree, f.at)
        k == ReduceKey(f.rest)
        i == FindPos(parent, k)
    IN IF i # 0
       THEN [tree |-> ReplaceAt(f.tree, f.at \o <<i>>, v), at |-> f.at \o <<i>>,
             replaced |-> TRUE]
       ELSE [tree |-> ReplaceAt(f.tree, f.at, PushBack(parent, k, v)),
             at |-> f.at \o <<Size(parent) + 1>>, replaced |-> FALSE]

\* add_child written as put_child: an existing child is replaced
AddChild_Replacing(n, p, v) == PutChild(n, p, v)

\* ptree::add_child
AddChild(n, p, v) ==
    LET f == ForcePath(n, p)
        parent == NodeAt(f.tree, f.at)
    IN [tree |-> ReplaceAt(f.tree, f.at, PushBack(parent, ReduceKey(f.rest), v)),
        at |-> f.at \o <<Size(parent) + 1>>]

\* the path_type a key converts to where it is passed for a path: the
\* characters of the key, the separator among them
KeyPath(k) ==
    CASE k = "" -> <<>>
      [] k = DottedKey -> <<"a", Delim, "b">>
      [] OTHER -> <<k>>

\* the loop of | and |=: put_child(iter->first, iter->second) for the
\* children of the right operand in children order
RECURSIVE PutChildren(_, _)
PutChildren(n, kids) ==
    IF kids = <<>> THEN n
    ELSE PutChildren(PutChild(n, KeyPath(Head(kids).key), Head(kids).node).tree,
                     Tail(kids))

\* += written with put_child: a child with the key of a new one is replaced
InsertRange_Merging(n, kids) == PutChildren(n, kids)

\* ptree::insert(end(), first, last): every element of the range linked last
RECURSIVE InsertRange(_, _)
InsertRange(n, kids) ==
    IF kids = <<>> THEN n
    ELSE InsertRange(PushBack(n, Head(kids).key, Head(kids).node), Tail(kids))

(* ---- the Python values passed in ---- *)

\* a Tree passed as value: value "" and one child a = "x"
SubTree == PushBack(Leaf(""), "a", Leaf("x"))

PyStr(s) == [ty |-> "str", str |-> s, obj |-> Leaf("")]
PyNone == [ty |-> "none", str |-> "", obj |-> Leaf("")]
PyTree(t) == [ty |-> "tree", str |-> "", obj |-> t]
\* an object that is no Tree, None, bool, number or str
PyOther == [ty |-> "other", str |-> "", obj |-> Leaf("")]

\* the strings passed as values
Scalars == {"x", "y"}

\* the values passed to the calls by key and by position ...
PyValues == {PyStr(x) : x \in Scalars} \cup {PyOther}

\* ... and to the calls by path
PathValues == {PyStr("x"), PyTree(SubTree)}

\* Py_True and Py_False; str is what PyObject_Str gives for the object
PyBool(b) == [ty |-> "bool", str |-> IF b THEN "True" ELSE "False", obj |-> Leaf("")]
\* an int or a float, str being what PyObject_Str gives for it: 5 is
\* PyNum("5"), 1.5 is PyNum("1.5")
PyNum(text) == [ty |-> "number", str |-> text, obj |-> Leaf("")]

\* an int passed as index, key or operand
PyInt(i) == [ty |-> "int", n |-> i, str |-> ToString(i), obj |-> Leaf("")]
\* a float passed as operand, in tenths: 1.5 is PyFloat(15)
PyFloat(tenths) ==
    [ty |-> "float", tenths |-> tenths,
     str |-> ToString(tenths \div 10) \o "." \o ToString(tenths % 10), obj |-> Leaf("")]

PyBool_Check(value) == value.ty = "bool"

\* bool is a subtype of int: PyNumber_Check holds of Py_True and Py_False too
PyNumber_Check(value) == value.ty \in {"bool", "number", "int", "float"}

PyLong_Check(value) == value.ty \in {"bool", "int"}

PyFloat_Check(value) == value.ty = "float"

PyUnicode_Check(value) == value.ty = "str"

\* py_value_to_string: 0 and the string, or -1
py_value_to_string(value) ==
    IF value.ty = "none" THEN [rc |-> 0, str |-> "none"]
    ELSE IF PyBool_Check(value)
    THEN [rc |-> 0, str |-> IF value = PyBool(TRUE) THEN "true" ELSE "false"]
    ELSE IF PyNumber_Check(value) THEN [rc |-> 0, str |-> value.str]
    ELSE IF PyUnicode_Check(value) THEN [rc |-> 0, str |-> value.str]
    ELSE [rc |-> -1, str |-> ""]

\* the value accepted by a handler: a Tree or py_value_to_string(value) == 0
Accepted(value) == value.ty = "tree" \/ py_value_to_string(value).rc = 0

\* the ptree the handler stores: a copy of the Tree or ptree(value_std)
AsTree(value) ==
    IF value.ty = "tree" THEN value.obj ELSE Leaf(py_value_to_string(value).str)

(* ---- results ---- *)

RetNone == [kind |-> "none"]
RetInt(n) == [kind |-> "int", n |-> n]
RetExc(e) == [kind |-> "exc", exc |-> e]
\* PyPropertyTree_New(p, PTREE_FLAG_OBJECT_NOT_OWNED): p is the node at
\* positions `at` below self->obj
RetRef(at) == [kind |-> "ref", at |-> at]
\* PyPropertyTree_New(new ptree(...), PTREE_FLAG_NONE)
RetOwned(t) == [kind |-> "owned", tree |-> t]
\* the caller's default object, returned as it is
RetDefault == [kind |-> "default"]

(* ---- objects that point into self->obj ---- *)

\* A Tree object made with PTREE_FLAG_OBJECT_NOT_OWNED and an iterator object
\* hold a pointer to a node of self->obj and nothing that keeps the node
\* alive.  The model names a node by its positions, so a call that moves or
\* erases children says where each child of self->obj goes: a function from
\* the positions before the call to the positions after it, -1 for a child
\* that is erased.  In an iterator 0 stands for end().

\* a Tree object or an iterator whose node has been destroyed
Dangling == [kind |-> "dangling"]

\* erase(key): every child with the key goes
EraseKeyMap(n, k) ==
    [j \in 1..Size(n) |->
        IF n.kids[j].key = k THEN -1
        ELSE j - Cardinality({l \in 1..(j - 1) : n.kids[l].key = k})]

\* erase(iterator): the child at position i goes
EraseAtMap(n, i) ==
    [j \in 1..Size(n) |-> IF j = i THEN -1 ELSE IF j > i THEN j - 1 ELSE j]

\* insert, reverse and sort relink the children: a child of n is the child
\* of m with its key and its place among the equal keys
RelinkMap(n, m) ==
    [j \in 1..Size(n) |->
        CHOOSE l \in 1..Size(m) :
            m.kids[l].key = n.kids[j].key /\ m.kids[l].ord = n.kids[j].ord]

\* where an iterator that stood at position p stands after the call: 0 is
\* end(), which no call moves, and below 0 is a child that was destroyed, -1
\* for the one the iterator stood at and -2 for another one its range ended at
MapPos(f, p) == IF p >= 1 THEN f[p] ELSE p


\* the object o after a call that moved the children of self->obj by f
Rebound(o, f) ==
    CASE o.kind = "ref" /\ o.at # <<>> ->
             IF f[o.at[1]] = -1 THEN Dangling ELSE [o EXCEPT !.at[1] = f[o.at[1]]]
      [] o.kind = "open" ->
             [o EXCEPT !.cur = MapPos(f, @),
                       !.stop = IF MapPos(f, @) = -1 /\ @ # o.cur /\ @ >= 1
                                THEN -2 ELSE MapPos(f, @),
                       !.changed = @ \/ \E j \in DOMAIN f : f[j] = -1]
      [] OTHER -> o

\* the object o after the node at positions `at` was assigned a new ptree:
\* basic_ptree::operator= swaps in a copy and destroys the old children
Overwritten(o, at) ==
    IF /\ o.kind = "ref"
       /\ Len(o.at) > Len(at)
       /\ SubSeq(o.at, 1, Len(at)) = at
    THEN Dangling
    ELSE o

(* ---- calls ---- *)

Init ==
    /\ tree = Leaf("")
    /\ pre = Leaf("")
    /\ op = [name |-> "init"]
    /\ ret = RetNone
    /\ reordered = FALSE
    /\ aborted = FALSE
    /\ other = RetOwned(Leaf(""))

\* append(key, value)
PyPropertyTree_append(key, value) ==
    /\ ~aborted
    /\ UNCHANGED other
    /\ pre' = tree
    /\ op' = [name |-> "append", key |-> key, value |-> value]
    /\ IF Accepted(value)
       THEN /\ NodeCount(tree) + 1 + NodeCount(AsTree(value)) <= MaxNodes
            /\ tree' = PushBack(tree, key, AsTree(value))
            /\ ret' = RetRef(<<Size(tree) + 1>>)
       ELSE /\ tree' = tree
            /\ ret' = RetExc("ValueError")
    /\ UNCHANGED <<reordered, aborted>>

\* count(key)
PyPropertyTree_count(key) ==
    /\ ~aborted
    /\ UNCHANGED other
    /\ pre' = tree
    /\ op' = [name |-> "count", key |-> key]
    /\ ret' = RetInt(CountKey(tree, key))
    /\ UNCHANGED <<tree, reordered, aborted>>

\* erase(key)
PyPropertyTree_erase(key) ==
    /\ ~aborted
    /\ other' = Rebound(other, EraseKeyMap(tree, key))
    /\ pre' = tree
    /\ op' = [name |-> "erase", key |-> key]
    /\ tree' = EraseKey(tree, key).tree
    /\ ret' = RetInt(EraseKey(tree, key).count)
    /\ UNCHANGED <<reordered, aborted>>

\* a call that ends the process: a BOOST_ASSERT failed in a build without NDEBUG
Abort(call) ==
    /\ pre' = tree
    /\ op' = call
    /\ ret' = RetNone
    /\ aborted' = TRUE
    /\ UNCHANGED <<tree, reordered>>

\* add(path, value)
PyPropertyTree_add(path, value) ==
    /\ ~aborted
    /\ UNCHANGED other
    /\ LET call == [name |-> "add", path |-> path, value |-> value]
           r == AddChild(tree, path, AsTree(value))
       IN IF Accepted(value)
          THEN \/ /\ NodeCount(r.tree) <= MaxNodes
                  /\ pre' = tree
                  /\ op' = call
                  /\ tree' = r.tree
                  /\ ret' = RetRef(r.at)
                  /\ UNCHANGED <<reordered, aborted>>
               \/ /\ AssertFails(path)
                  /\ Abort(call)
          ELSE /\ pre' = tree
               /\ op' = call
               /\ ret' = RetExc("ValueError")
               /\ UNCHANGED <<tree, reordered, aborted>>

\* put(path, value)
PyPropertyTree_put(path, value) ==
    /\ ~aborted
    /\ LET call == [name |-> "put", path |-> path, value |-> value]
           r == PutChild(tree, path, AsTree(value))
       IN IF Accepted(value)
          THEN \/ /\ NodeCount(r.tree) <= MaxNodes
                  /\ pre' = tree
                  /\ op' = call
                  /\ tree' = r.tree
                  /\ other' = IF r.replaced THEN Overwritten(other, r.at) ELSE other
                  /\ ret' = RetRef(r.at)
                  /\ UNCHANGED <<reordered, aborted>>
               \/ /\ AssertFails(path)
                  /\ Abort(call)
                  /\ UNCHANGED other
          ELSE /\ pre' = tree
               /\ op' = call
               /\ ret' = RetExc("ValueError")
               /\ UNCHANGED <<tree, reordered, aborted, other>>

\* get with the default never looked at
GetResult_NoDefault(w, hasDefault) ==
    IF w.found THEN RetRef(w.at) ELSE RetExc("BadPathError")

\* what get returns for the outcome w of walk_path
GetResult(w, hasDefault) ==
    IF w.found THEN RetRef(w.at)
    ELSE IF hasDefault THEN RetDefault ELSE RetExc("BadPathError")

\* get(path) and get(path, default); afterPut tells that the call before was
\* put on the same path string, and holds the value that was put
PyPropertyTree_get(path, hasDefault) ==
    /\ ~aborted
    /\ UNCHANGED other
    /\ pre' = tree
    /\ op' = [name |-> "get", path |-> path, hasDefault |-> hasDefault,
              afterPut |-> op.name = "put" /\ op.path = path /\ ret.kind = "ref",
              value |-> IF op.name = "put" /\ op.path = path /\ ret.kind = "ref"
                        THEN op.value ELSE PyNone]
    /\ ret' = GetResult(WalkPath(tree, path), hasDefault)
    /\ UNCHANGED <<tree, reordered, aborted>>

\* setdefault(path) and setdefault(path, default): value is Py_None when the
\* default is left out
PyPropertyTree_setdefault(path, value) ==
    /\ ~aborted
    /\ UNCHANGED other
    /\ LET call == [name |-> "setdefault", path |-> path, value |-> value]
           w == WalkPath(tree, path)
           r == PutChild(tree, path, AsTree(value))
       IN IF w.found
          THEN /\ pre' = tree
               /\ op' = call
               /\ ret' = RetRef(w.at)
               /\ UNCHANGED <<tree, reordered, aborted>>
          ELSE IF Accepted(value)
          THEN \/ /\ NodeCount(r.tree) <= MaxNodes
                  /\ pre' = tree
                  /\ op' = call
                  /\ tree' = r.tree
                  /\ ret' = RetRef(r.at)
                  /\ UNCHANGED <<reordered, aborted>>
               \/ /\ AssertFails(path)
                  /\ Abort(call)
          ELSE /\ pre' = tree
               /\ op' = call
               /\ ret' = RetExc("ValueError")
               /\ UNCHANGED <<tree, reordered, aborted>>

\* find(key)
PyPropertyTree_find(key) ==
    /\ ~aborted
    /\ UNCHANGED other
    /\ pre' = tree
    /\ op' = [name |-> "find", key |-> key]
    /\ ret' = IF FindPos(tree, key) = 0 THEN RetNone ELSE RetRef(<<FindPos(tree, key)>>)
    /\ UNCHANGED <<tree, reordered, aborted>>

\* insert(index, key, value)
PyPropertyTree_insert(index, key, value) ==
    LET idx == IF index < 0 THEN index + Size(tree) + 1 ELSE index
    IN /\ ~aborted
       /\ pre' = tree
       /\ op' = [name |-> "insert", index |-> index, key |-> key, value |-> value]
       /\ IF idx < 0 \/ idx > Size(tree)
          THEN /\ ret' = RetExc("IndexError")
               /\ UNCHANGED <<tree, reordered, other>>
          ELSE IF Accepted(value)
          THEN /\ NodeCount(tree) + 1 + NodeCount(AsTree(value)) <= MaxNodes
               /\ tree' = InsertAt(tree, idx, key, AsTree(value))
               /\ other' = Rebound(other,
                                   RelinkMap(tree, InsertAt(tree, idx, key, AsTree(value))))
               /\ ret' = RetRef(<<idx + 1>>)
               /\ reordered' = TRUE
          ELSE /\ ret' = RetExc("ValueError")
               /\ UNCHANGED <<tree, reordered, other>>
       /\ UNCHANGED aborted

\* pop taking the last child with the key in children order
PopPos_Last(n, key) ==
    LET m == Matching(n, key)
    IN IF m = {} THEN 0 ELSE CHOOSE i \in m : \A j \in m : i >= j

\* the position pop erases and copies: that of find(key)
PopPos(n, key) == FindPos(n, key)

\* pop(key) and pop(key, default)
PyPropertyTree_pop(key, hasDefault) ==
    /\ ~aborted
    /\ pre' = tree
    /\ op' = [name |-> "pop", key |-> key, hasDefault |-> hasDefault]
    /\ IF PopPos(tree, key) = 0
       THEN /\ ret' = IF hasDefault THEN RetDefault ELSE RetExc("KeyError")
            /\ tree' = tree
            /\ other' = other
       ELSE /\ ret' = RetOwned(tree.kids[PopPos(tree, key)].node)
            /\ tree' = EraseAt(tree, PopPos(tree, key))
            /\ other' = Rebound(other, EraseAtMap(tree, PopPos(tree, key)))
    /\ UNCHANGED <<reordered, aborted>>

\* popitem normalising a negative index the way insert does
PopItemIndex_AsInsert(n, given, index) ==
    LET i == IF given THEN index ELSE Size(n) - 1
    IN IF i < 0 THEN i + Size(n) + 1 ELSE i

\* the index popitem works with: the argument, size - 1 when it is left out,
\* a negative one counted from the end
PopItemIndex(n, given, index) ==
    LET i == IF given THEN index ELSE Size(n) - 1
    IN IF i < 0 THEN i + Size(n) ELSE i

\* popitem() and popitem(index)
PyPropertyTree_popitem(given, index) ==
    LET idx == PopItemIndex(tree, given, index)
    IN /\ ~aborted
       /\ pre' = tree
       /\ op' = [name |-> "popitem", given |-> given, index |-> index]
       /\ IF idx < 0 \/ idx >= Size(tree)
          THEN /\ ret' = RetExc("IndexError")
               /\ tree' = tree
               /\ other' = other
          ELSE /\ ret' = [kind |-> "item", key |-> tree.kids[idx + 1].key,
                          tree |-> tree.kids[idx + 1].node]
               /\ tree' = EraseAt(tree, idx + 1)
               /\ other' = Rebound(other, EraseAtMap(tree, idx + 1))
       /\ UNCHANGED <<reordered, aborted>>

\* the loop of remove: the first position of the children order whose
\* iter->first equals the argument, 0 when the loop reaches end()
RemovePos(n, key) == FirstInOrder(n, key)

\* remove(key)
PyPropertyTree_remove(key) ==
    /\ ~aborted
    /\ pre' = tree
    /\ op' = [name |-> "remove", key |-> key]
    /\ IF RemovePos(tree, key) = 0
       THEN /\ ret' = RetExc("ValueError")
            /\ tree' = tree
            /\ other' = other
       ELSE /\ ret' = RetNone
            /\ tree' = EraseAt(tree, RemovePos(tree, key))
            /\ other' = Rebound(other, EraseAtMap(tree, RemovePos(tree, key)))
    /\ UNCHANGED <<reordered, aborted>>

\* reverse()
PyPropertyTree_reverse ==
    /\ ~aborted
    /\ other' = Rebound(other, RelinkMap(tree, Reverse(tree)))
    /\ pre' = tree
    /\ op' = [name |-> "reverse"]
    /\ tree' = Reverse(tree)
    /\ ret' = RetNone
    /\ reordered' = TRUE
    /\ UNCHANGED aborted

\* sort() with no comparator; again tells that the call before was sort() too
PyPropertyTree_sort ==
    /\ ~aborted
    /\ other' = Rebound(other, RelinkMap(tree, Sort(tree)))
    /\ pre' = tree
    /\ op' = [name |-> "sort", again |-> op.name = "sort"]
    /\ tree' = Sort(tree)
    /\ ret' = RetNone
    /\ UNCHANGED <<reordered, aborted>>

\* append(key, value) called on the Tree object the last call returned (for
\* popitem, the Tree of the pair): on its own ptree when it owns one, on the
\* node of self it points to otherwise
Returned_append(key, value) ==
    /\ ~aborted
    /\ UNCHANGED other
    /\ ret.kind \in {"ref", "owned", "item"}
    /\ Accepted(value)
    /\ pre' = tree
    /\ op' = [name |-> "returned.append", key |-> key, value |-> value,
              from |-> IF op.name = "returned.append" THEN op.from ELSE op.name]
    /\ IF ret.kind \in {"owned", "item"}
       THEN /\ NodeCount(ret.tree) + 1 + NodeCount(AsTree(value)) <= MaxNodes
            /\ ret' = [ret EXCEPT !.tree = PushBack(@, key, AsTree(value))]
            /\ tree' = tree
       ELSE /\ NodeCount(tree) + 1 + NodeCount(AsTree(value)) <= MaxNodes
            /\ ret' = ret
            /\ tree' = ReplaceAt(tree, ret.at,
                                 PushBack(NodeAt(tree, ret.at), key, AsTree(value)))
    /\ UNCHANGED <<reordered, aborted>>

\* the two loops of index: the first position from start on and before end,
\* counted from 0, whose iter->first equals the argument; -1 for the jump to
\* error (end() met before start or before a match)
IndexPos(n, key, start, end) ==
    LET from == IF start < 0 THEN 0 ELSE start
        m == {i \in from..(end - 1) : i < Size(n) /\ n.kids[i + 1].key = key}
    IN IF m = {} THEN -1 ELSE CHOOSE i \in m : \A j \in m : i <= j

\* index(key, start) and index(key, start, end): start is 0 and end is size()
\* where they are left out
PyPropertyTree_index(key, start, hasEnd, end) ==
    LET e == IF hasEnd THEN end ELSE Size(tree)
    IN /\ ~aborted
       /\ UNCHANGED other
       /\ pre' = tree
       /\ op' = [name |-> "index", key |-> key, start |-> start, end |-> e]
       /\ ret' = IF IndexPos(tree, key, start, e) < 0 THEN RetExc("ValueError")
                 ELSE RetInt(IndexPos(tree, key, start, e))
       /\ UNCHANGED <<tree, reordered, aborted>>

\* a callable passed to search: f(key, child) -> bool
PyCallable(f) == [ty |-> "callable", str |-> f, obj |-> Leaf("")]

\* the callables tried: lambda k, c: k == "a" and lambda k, c: c.value == "x"
Callables == {"keyIsA", "valueIsX"}

\* PyObject_IsTrue(PyObject_CallFunction(callable, key, child))
Call(f, key, node) ==
    CASE f = "keyIsA" -> key = "a"
      [] f = "valueIsX" -> node.data = "x"
      [] f = "none" -> TRUE

\* the (key, Tree) pair an iterator yields: the Tree points to the child at
\* position i of self->obj
Pair(n, i) == [key |-> n.kids[i].key, at |-> <<i>>]

\* sorted(): an AssocTreeIter from ordered_begin() to not_found()
PyPropertyTree_sorted ==
    /\ ~aborted
    /\ UNCHANGED other
    /\ pre' = tree
    /\ op' = [name |-> "sorted"]
    /\ ret' = [kind |-> "associter",
               call |-> [name |-> "sorted", afterSort |-> op.name = "sort"],
               first |-> 1, second |-> Size(tree) + 1,
               yielded |-> <<>>, done |-> FALSE]
    /\ UNCHANGED <<tree, reordered, aborted>>

\* search(arg): an AssocTreeIter over equal_range(arg) for a string, a
\* TreeIter from begin() for a callable, TypeError for anything else
PyPropertyTree_search(arg) ==
    /\ ~aborted
    /\ UNCHANGED other
    /\ pre' = tree
    /\ op' = [name |-> "search", arg |-> arg]
    /\ ret' = CASE arg.ty = "str" ->
                     [kind |-> "associter",
                      call |-> [name |-> "search", arg |-> arg],
                      first |-> EqualRange(tree, arg.str).first,
                      second |-> EqualRange(tree, arg.str).second,
                      yielded |-> <<>>, done |-> FALSE]
                [] arg.ty = "callable" ->
                     [kind |-> "iter",
                      call |-> [name |-> "search", arg |-> arg],
                      iterator |-> 1, callable |-> arg.str,
                      yielded |-> <<>>, done |-> FALSE]
                [] OTHER -> RetExc("TypeError")
    /\ UNCHANGED <<tree, reordered, aborted>>

\* next() of the AssocTreeIter the last call returned
PyPropertyTree_AssocIter__tp_iternext ==
    /\ ~aborted
    /\ UNCHANGED other
    /\ ret.kind = "associter"
    /\ ~ret.done
    /\ pre' = tree
    /\ op' = [name |-> "next", call |-> ret.call]
    /\ ret' = IF ret.first = ret.second
              THEN [ret EXCEPT !.done = TRUE]
              ELSE [ret EXCEPT !.first = @ + 1,
                               !.yielded = Append(@, Pair(tree, OrderedIndex(tree)[ret.first]))]
    /\ UNCHANGED <<tree, reordered, aborted>>

\* the place the loop of TreeIter's next stops at: the first position from
\* i on whose child the callable accepts, size + 1 for end()
IterStop(n, i, f) ==
    LET m == {j \in i..Size(n) : Call(f, n.kids[j].key, n.kids[j].node)}
    IN IF m = {} THEN Size(n) + 1 ELSE CHOOSE j \in m : \A l \in m : j <= l

\* next() of the TreeIter the last call returned
PyPropertyTree_Iter__tp_iternext ==
    LET stop == IterStop(tree, ret.iterator, ret.callable)
    IN /\ ~aborted
       /\ UNCHANGED other
       /\ ret.kind = "iter"
       /\ ~ret.done
       /\ pre' = tree
       /\ op' = [name |-> "next", call |-> ret.call]
       /\ ret' = IF stop > Size(tree)
                 THEN [ret EXCEPT !.done = TRUE, !.iterator = stop]
                 ELSE [ret EXCEPT !.iterator = stop + 1,
                                  !.yielded = Append(@, Pair(tree, stop))]
       /\ UNCHANGED <<tree, reordered, aborted>>

(* ---- calls with a second Tree object ---- *)

RetBool(b) == [kind |-> "bool", b |-> b]

\* the ptree a Tree object works on: its own, or the node of self->obj it
\* points to
Deref(o) == IF o.kind = "owned" THEN o.tree ELSE NodeAt(tree, o.at)

\* a copy that is a second handle on the ptree of self
CopyOf_Alias(t) == RetRef(<<>>)

\* PyPropertyTree_New(new ptree(*self->obj), PTREE_FLAG_NONE)
CopyOf(t) == RetOwned(t)

\* b = copy.copy(self)
PyPropertyTree__copy__ ==
    /\ ~aborted
    /\ pre' = tree
    /\ op' = [name |-> "copy"]
    /\ ret' = CopyOf(tree)
    /\ other' = CopyOf(tree)
    /\ UNCHANGED <<tree, reordered, aborted>>

\* b = Tree() and b = Tree(value)
PyPropertyTree__tp_init(given, value) ==
    /\ ~aborted
    /\ pre' = tree
    /\ op' = [name |-> "Tree", given |-> given, value |-> value]
    /\ IF ~given
       THEN /\ other' = RetOwned(Leaf(""))
            /\ ret' = RetNone
       ELSE IF value.ty = "tree"
       THEN /\ other' = CopyOf(value.obj)
            /\ ret' = RetNone
       ELSE IF py_value_to_string(value).rc = 0
       THEN /\ other' = RetOwned(Leaf(py_value_to_string(value).str))
            /\ ret' = RetNone
       ELSE /\ other' = other
            /\ ret' = RetExc("TypeError")
    /\ UNCHANGED <<tree, reordered, aborted>>

\* a call on b that turns the ptree b works on into t: b's own ptree when it
\* owns one, the node of self->obj it points to otherwise
OtherBecomes(t) ==
    IF other.kind = "owned"
    THEN /\ other' = [other EXCEPT !.tree = t]
         /\ tree' = tree
    ELSE /\ other' = other
         /\ tree' = ReplaceAt(tree, other.at, t)

\* b.append(key, value)
Other_append(key, value) ==
    /\ ~aborted
    /\ other.kind \in {"owned", "ref"}
    /\ Accepted(value)
    /\ NodeCount(Deref(other)) + 1 <= MaxOther
    /\ pre' = tree
    /\ op' = [name |-> "b.append", key |-> key, value |-> value]
    /\ OtherBecomes(PushBack(Deref(other), key, AsTree(value)))
    /\ ret' = RetNone
    /\ UNCHANGED <<reordered, aborted>>

\* b.put(path, value), for a path put_child accepts
Other_put(path, value) ==
    LET r == PutChild(Deref(other), path, AsTree(value))
    IN /\ ~aborted
       /\ other.kind \in {"owned", "ref"}
       /\ Accepted(value)
       /\ ~AssertFails(path)
       /\ NodeCount(r.tree) <= MaxOther
       /\ pre' = tree
       /\ op' = [name |-> "b.put", path |-> path, value |-> value]
       /\ OtherBecomes(r.tree)
       /\ ret' = RetNone
       /\ UNCHANGED <<reordered, aborted>>

\* self == b and self != b: Py_EQ and Py_NE with a Tree on the right
PyPropertyTree__tp_richcompare(cmp) ==
    /\ ~aborted
    /\ other.kind \in {"owned", "ref"}
    /\ pre' = tree
    /\ op' = [name |-> "richcompare", cmp |-> cmp, right |-> Deref(other)]
    /\ ret' = CASE cmp = "Py_EQ" -> RetBool(TreeEq(tree, Deref(other)))
                [] cmp = "Py_NE" -> RetBool(~TreeEq(tree, Deref(other)))
    /\ UNCHANGED <<tree, reordered, aborted, other>>

\* a key of the right operand for which put_child's assertion fails
AssertFailsOn(right) == \E i \in 1..Size(right) : AssertFails(KeyPath(right.kids[i].key))

\* self | b
PyPropertyTree__nb_or ==
    /\ ~aborted
    /\ other.kind \in {"owned", "ref"}
    /\ LET call == [name |-> "or", right |-> Deref(other)]
           r == PutChildren(tree, Deref(other).kids)
       IN \/ /\ NodeCount(r) <= MaxNodes
             /\ pre' = tree
             /\ op' = call
             /\ ret' = RetOwned(r)
             /\ UNCHANGED <<tree, reordered, aborted, other>>
          \/ /\ AssertFailsOn(Deref(other))
             /\ Abort(call)
             /\ UNCHANGED other

\* the Tree object o after the loop of |=: a node below one that a put_child
\* of the loop assigns is destroyed
RECURSIVE PutChildrenOverwrite(_, _, _)
PutChildrenOverwrite(o, n, kids) ==
    IF kids = <<>> THEN o
    ELSE LET r == PutChild(n, KeyPath(Head(kids).key), Head(kids).node)
         IN PutChildrenOverwrite(IF r.replaced THEN Overwritten(o, r.at) ELSE o,
                                 r.tree, Tail(kids))

\* self |= b
PyPropertyTree__nb_inplace_or ==
    /\ ~aborted
    /\ other.kind \in {"owned", "ref"}
    /\ LET call == [name |-> "ior", right |-> Deref(other)]
           r == PutChildren(tree, Deref(other).kids)
       IN \/ /\ NodeCount(r) <= MaxNodes
             /\ pre' = tree
             /\ op' = call
             /\ tree' = r
             /\ ret' = RetRef(<<>>)
             /\ other' = PutChildrenOverwrite(other, tree, Deref(other).kids)
             /\ UNCHANGED <<reordered, aborted>>
          \/ /\ AssertFailsOn(Deref(other))
             /\ Abort(call)
             /\ UNCHANGED other

\* self += b, b another object than self
PyPropertyTree__sq_inplace_concat ==
    /\ ~aborted
    /\ other.kind \in {"owned", "ref"}
    /\ NodeCount(tree) + NodeCount(Deref(other)) <= MaxNodes
    /\ pre' = tree
    /\ op' = [name |-> "iadd", right |-> Deref(other)]
    /\ tree' = InsertRange(tree, Deref(other).kids)
    /\ ret' = RetRef(<<>>)
    /\ UNCHANGED <<reordered, aborted, other>>

\* the loop of sequenced_index::insert(end(), first, last) where first and last
\* are begin() and end() of the container itself: every element that first
\* points to is linked before end(), so first never meets last; the loop goes
\* on until the allocation of a node fails for want of memory
RECURSIVE InsertOwnRange(_, _)
InsertOwnRange(n, first) ==
    IF first = Size(n) + 1 THEN [tree |-> n, bad_alloc |-> FALSE]
    ELSE IF NodeCount(n) >= MaxHeap THEN [tree |-> n, bad_alloc |-> TRUE]
    ELSE InsertOwnRange(PushBack(n, n.kids[first].key, n.kids[first].node), first + 1)

\* self += self: the right operand is self, value->obj is self->obj.  The
\* std::bad_alloc that ends the loop is caught nowhere and ends the process
PyPropertyTree__sq_inplace_concat_self ==
    /\ ~aborted
    /\ LET call == [name |-> "iadd_self"]
           r == InsertOwnRange(tree, 1)
       IN IF r.bad_alloc
          THEN Abort(call)
          ELSE /\ pre' = tree
               /\ op' = call
               /\ tree' = r.tree
               /\ ret' = RetRef(<<>>)
               /\ UNCHANGED <<reordered, aborted>>
    /\ UNCHANGED other

\* t.value = py_val: the setter of the value attribute takes a str only
PyPropertyTree__set_value(py_val) ==
    /\ ~aborted
    /\ UNCHANGED other
    /\ pre' = tree
    /\ op' = [name |-> "set_value", value |-> py_val]
    /\ IF PyUnicode_Check(py_val)
       THEN /\ tree' = [tree EXCEPT !.data = py_val.str]
            /\ ret' = RetNone
       ELSE /\ tree' = tree
            /\ ret' = RetExc("ValueError")
    /\ UNCHANGED <<reordered, aborted>>

\* the names of the type's own attributes that setattr is tried with:
\* PyObject_GenericSetAttr finds the descriptor of `value` and calls its setter,
\* and raises AttributeError for any name the type does not have
TypeAttributes == {"value"}

\* setattr(t, name, value), t.name = value
PyPropertyTree__tp_setattro(name, value) ==
    /\ ~aborted
    /\ LET call == [name |-> "setattr", attr |-> name, value |-> value]
           r == PutChild(tree, KeyPath(name), AsTree(value))
       IN IF name \in TypeAttributes
          THEN /\ pre' = tree
               /\ op' = call
               /\ IF PyUnicode_Check(value)
                  THEN /\ tree' = [tree EXCEPT !.data = value.str]
                       /\ ret' = RetNone
                  ELSE /\ tree' = tree
                       /\ ret' = RetExc("ValueError")
               /\ UNCHANGED <<reordered, aborted, other>>
          ELSE IF Accepted(value)
          THEN \/ /\ NodeCount(r.tree) <= MaxNodes
                  /\ pre' = tree
                  /\ op' = call
                  /\ tree' = r.tree
                  /\ other' = IF r.replaced THEN Overwritten(other, r.at) ELSE other
                  /\ ret' = RetNone
                  /\ UNCHANGED <<reordered, aborted>>
               \/ /\ AssertFails(KeyPath(name))
                  /\ Abort(call)
                  /\ UNCHANGED other
          ELSE /\ pre' = tree
               /\ op' = call
               /\ ret' = RetExc("ValueError")
               /\ UNCHANGED <<tree, reordered, aborted, other>>


\* the first child in children order whose key is k, 0 when there is none
FirstWithKey(n, k) ==
    IF Matching(n, k) = {} THEN 0
    ELSE CHOOSE i \in Matching(n, k) : \A j \in Matching(n, k) : i <= j

\* t[key] = value (hasValue) and del t[key]: an index is turned into the key
\* of the child at that position, and the key is then used as a path
PyPropertyTree_mp_ass_subscript(key, hasValue, value) ==
    /\ ~aborted
    /\ LET call == [name |-> IF hasValue THEN "setitem" ELSE "delitem",
                    key |-> key, value |-> value]
           index == IF key.ty = "int"
                    THEN (IF key.n < 0 THEN key.n + Size(tree) ELSE key.n)
                    ELSE 0
           inRange == index >= 0 /\ index < Size(tree)
           path_std == IF key.ty = "int"
                       THEN (IF inRange THEN tree.kids[index + 1].key ELSE "")
                       ELSE key.str
           i == FirstWithKey(tree, path_std)
           r == PutChild(tree, KeyPath(path_std), AsTree(value))
           Raise(e) == /\ pre' = tree
                       /\ op' = call
                       /\ ret' = RetExc(e)
                       /\ UNCHANGED <<tree, reordered, aborted, other>>
       IN IF key.ty = "int" /\ ~inRange THEN Raise("IndexError")
          ELSE IF key.ty \notin {"int", "str"} THEN Raise("KeyError")
          ELSE IF ~hasValue
          THEN IF i = 0 THEN Raise("KeyError")
               ELSE /\ pre' = tree
                    /\ op' = call
                    /\ tree' = EraseAt(tree, i)
                    /\ other' = Rebound(other, EraseAtMap(tree, i))
                    /\ ret' = RetNone
                    /\ UNCHANGED <<reordered, aborted>>
          ELSE IF Accepted(value)
          THEN \/ /\ NodeCount(r.tree) <= MaxNodes
                  /\ pre' = tree
                  /\ op' = call
                  /\ tree' = r.tree
                  /\ other' = IF r.replaced THEN Overwritten(other, r.at) ELSE other
                  /\ ret' = RetNone
                  /\ UNCHANGED <<reordered, aborted>>
               \/ /\ AssertFails(KeyPath(path_std))
                  /\ Abort(call)
                  /\ UNCHANGED other
          ELSE Raise("ValueError")

\* the loop of extend: push_back for every (key, value) of the iterable up to
\* the first value that is refused
RECURSIVE ExtendLoop(_, _)
ExtendLoop(n, items) ==
    IF items = <<>> THEN [tree |-> n, ok |-> TRUE]
    ELSE IF Accepted(Head(items)[2])
    THEN ExtendLoop(PushBack(n, Head(items)[1], AsTree(Head(items)[2])), Tail(items))
    ELSE [tree |-> n, ok |-> FALSE]

\* extend(items), items a list of (key, value) pairs
PyPropertyTree_extend(items) ==
    /\ ~aborted
    /\ UNCHANGED other
    /\ pre' = tree
    /\ op' = [name |-> "extend", items |-> items]
    /\ NodeCount(ExtendLoop(tree, items).tree) <= MaxNodes
    /\ tree' = ExtendLoop(tree, items).tree
    /\ ret' = IF ExtendLoop(tree, items).ok THEN RetNone ELSE RetExc("ValueError")
    /\ UNCHANGED <<reordered, aborted>>

\* the strings a node holds in the comparisons
DataTexts == {"", "0", "1", "1.5", "5", "false", "none", "true", "x"}

\* std::string::compare on the strings above
StrRank(t) ==
    CASE t = "" -> 0 [] t = "0" -> 1 [] t = "1" -> 2 [] t = "1.5" -> 3 [] t = "5" -> 4
      [] t = "false" -> 5 [] t = "none" -> 6 [] t = "true" -> 7 [] t = "x" -> 8
      [] t = "y" -> 9

\* ptree::get_value<bool>(): the stream translator reads the data as a number
\* (0 or 1) and, when that fails, as a word (std::boolalpha); ok is FALSE where
\* it throws ptree_bad_data.  The bool is 0 or 1, as in C++ comparisons
get_value_bool(t) ==
    [ok |-> t \in {"true", "false", "1", "0"}, v |-> IF t \in {"true", "1"} THEN 1 ELSE 0]

\* ptree::get_value<long>()
get_value_long(t) ==
    [ok |-> t \in {"0", "1", "5"},
     v |-> CASE t = "1" -> 1 [] t = "5" -> 5 [] OTHER -> 0]

\* ptree::get_value<double>(), in tenths
get_value_double(t) ==
    [ok |-> t \in {"0", "1", "1.5", "5"},
     v |-> CASE t = "1" -> 10 [] t = "1.5" -> 15 [] t = "5" -> 50 [] OTHER -> 0]

\* bool(t)
PyPropertyTree__nb_bool ==
    /\ ~aborted
    /\ pre' = tree
    /\ op' = [name |-> "bool"]
    /\ ret' = IF get_value_bool(tree.data).ok
              THEN RetBool(get_value_bool(tree.data).v = 1)
              ELSE RetExc("BadDataError")
    /\ UNCHANGED <<tree, reordered, aborted, other>>

\* the six comparisons of the switch statements
Holds(cmp, a, b) ==
    CASE cmp = "Py_LT" -> a < b [] cmp = "Py_LE" -> a <= b [] cmp = "Py_EQ" -> a = b
      [] cmp = "Py_NE" -> a # b [] cmp = "Py_GE" -> a >= b [] cmp = "Py_GT" -> a > b

RetNotImplemented == [kind |-> "NotImplemented"]

\* the result of the comparison with the value translated by get
Compared(get, cmp, b) ==
    IF get.ok THEN RetBool(Holds(cmp, get.v, b)) ELSE RetExc("BadDataError")

\* tp_richcompare with an object on the right that is no Tree: where no branch
\* returns, the function ends in Py_RETURN_FALSE
RichCompare(n, x, cmp) ==
    IF x.ty = "none"
    THEN CASE cmp = "Py_EQ" -> RetBool(n.data = "none")
           [] cmp = "Py_NE" -> RetBool(n.data # "none")
           [] OTHER -> RetNotImplemented
    ELSE IF PyBool_Check(x)
    THEN Compared(get_value_bool(n.data), cmp, IF x = PyBool(TRUE) THEN 1 ELSE 0)
    ELSE IF PyLong_Check(x) THEN Compared(get_value_long(n.data), cmp, x.n)
    ELSE IF PyFloat_Check(x) THEN Compared(get_value_double(n.data), cmp, x.tenths)
    ELSE IF PyUnicode_Check(x) THEN RetBool(Holds(cmp, StrRank(n.data), StrRank(x.str)))
    ELSE RetBool(FALSE)

\* self <cmp> x, x no Tree; afterEq tells that the call before was self == x,
\* and eq holds what it returned
PyPropertyTree__tp_richcompare_object(x, cmp) ==
    /\ ~aborted
    /\ pre' = tree
    /\ op' = [name |-> "compare", cmp |-> cmp, right |-> x,
              afterEq |-> op.name = "compare" /\ op.cmp = "Py_EQ" /\ op.right = x,
              eq |-> ret]
    /\ ret' = RichCompare(tree, x, cmp)
    /\ UNCHANGED <<tree, reordered, aborted, other>>

\* b = the object rebuilt from self.__reduce__(): Tree(value) for the args
\* tuple, Tree() when the value is empty, and then b[key] = child for every
\* pair of the item iterator, which is put_child with the key for path
PyPropertyTree__reduce__ ==
    /\ ~aborted
    /\ LET call == [name |-> "reduce"]
           built == PutChildren(Leaf(tree.data), tree.kids)
       IN \/ /\ pre' = tree
             /\ op' = call
             /\ other' = RetOwned(built)
             /\ ret' = RetNone
             /\ UNCHANGED <<tree, reordered, aborted>>
          \/ /\ AssertFailsOn(tree)
             /\ Abort(call)
             /\ UNCHANGED other

(* ---- the json module: boost::property_tree::write_json and read_json ---- *)

\* JSON text, as the value it denotes: a string, a number or a literal with
\* its text, an array or an object with its members in the order of the text
\* (the key of an array element is not part of the text)
JString(t) == [type |-> "string", text |-> t, members |-> <<>>]
JNumber(t) == [type |-> "number", text |-> t, members |-> <<>>]
JLiteral(t) == [type |-> "literal", text |-> t, members |-> <<>>]
JArray(items) ==
    [type |-> "array", text |-> "",
     members |-> [i \in 1..Len(items) |-> [key |-> "", doc |-> items[i]]]]
JObject(members) == [type |-> "object", text |-> "", members |-> members]
\* text that is no JSON
JMalformed == [type |-> "malformed", text |-> "", members |-> <<>>]

\* verify_json of write_json: the root holds no data, and no node holds data
\* and children
RECURSIVE verify_json(_, _)
verify_json(pt, depth) ==
    /\ ~(depth = 0 /\ pt.data # "")
    /\ ~(pt.data # "" /\ pt.kids # <<>>)
    /\ \A i \in 1..Size(pt) : verify_json(pt.kids[i].node, depth + 1)

\* write_json_helper: below the root a node without children is written as a
\* string and a node whose children all have the empty key as an array; the
\* root and every other node is written as an object
RECURSIVE write_json_helper(_, _)
write_json_helper(pt, indent) ==
    IF indent > 0 /\ pt.kids = <<>> THEN JString(pt.data)
    ELSE IF indent > 0 /\ CountKey(pt, "") = Size(pt)
    THEN JArray([i \in 1..Size(pt) |-> write_json_helper(pt.kids[i].node, indent + 1)])
    ELSE JObject([i \in 1..Size(pt) |->
                    [key |-> pt.kids[i].key,
                     doc |-> write_json_helper(pt.kids[i].node, indent + 1)]])

\* read_json: the callbacks of the parser push a child back for every member
\* of an object (under its name) and every element of an array (under the
\* empty key), and copy the text of a string, a number or a literal into the
\* data of the node
RECURSIVE ReadJson(_)
ReadJson(doc) ==
    IF doc.members = <<>> THEN Leaf(doc.text)
    ELSE InsertRange(Leaf(""),
                     [i \in 1..Len(doc.members) |->
                        Entry(doc.members[i].key, 1, ReadJson(doc.members[i].doc))])

RetText(doc) == [kind |-> "text", doc |-> doc]

\* json.dumps(t, pretty_print) for t = self or t = b; pretty_print changes the
\* white space of the text only
property_tree_write_json(which, pretty_print) ==
    /\ ~aborted
    /\ which = "b" => other.kind \in {"owned", "ref"}
    /\ LET t == IF which = "self" THEN tree ELSE Deref(other)
       IN /\ pre' = tree
          /\ op' = [name |-> "dumps", arg |-> t, pretty_print |-> pretty_print]
          /\ ret' = IF verify_json(t, 0)
                    THEN RetText(write_json_helper(t, 0))
                    ELSE RetExc("JSONParserError")
    /\ UNCHANGED <<tree, reordered, aborted, other>>

\* b = json.loads(doc), and b = json.loads(json.dumps(t)) when fromDumps: the
\* text is then the one the call before returned, and the error it raised is
\* the error of the whole expression
property_tree_read_json(fromDumps, doc) ==
    /\ ~aborted
    /\ fromDumps => op.name = "dumps"
    /\ pre' = tree
    /\ LET text == IF fromDumps /\ ret.kind = "text" THEN ret.doc ELSE doc
       IN /\ op' = [name |-> "loads", fromDumps |-> fromDumps, doc |-> text,
                    source |-> IF fromDumps THEN op.arg ELSE Leaf("")]
          /\ IF (fromDumps /\ ret.kind = "exc") \/ text.type = "malformed"
             THEN /\ ret' = RetExc("JSONParserError")
                  /\ other' = other
             ELSE /\ ret' = RetNone
                  /\ other' = RetOwned(ReadJson(text))
    /\ UNCHANGED <<tree, reordered, aborted>>

(* ---- Tree objects and iterators kept while self changes ---- *)

\* clear(): ptree::clear() drops the data and destroys every child
PyPropertyTree_clear ==
    /\ ~aborted
    /\ pre' = tree
    /\ op' = [name |-> "clear"]
    /\ tree' = Leaf("")
    /\ other' = Rebound(other, [j \in 1..Size(tree) |-> -1])
    /\ ret' = RetNone
    /\ UNCHANGED <<reordered, aborted>>

\* items(): a TreeIter from begin() with no callable
PyPropertyTree_items ==
    /\ ~aborted
    /\ pre' = tree
    /\ op' = [name |-> "items"]
    /\ ret' = [kind |-> "iter", call |-> [name |-> "items"],
               iterator |-> 1, callable |-> "none", yielded |-> <<>>, done |-> FALSE]
    /\ UNCHANGED <<tree, reordered, aborted, other>>

\* iter(self)
PyPropertyTree__tp_iter ==
    /\ ~aborted
    /\ pre' = tree
    /\ op' = [name |-> "iter"]
    /\ ret' = [kind |-> "iter", call |-> [name |-> "iter"],
               iterator |-> 1, callable |-> "none", yielded |-> <<>>, done |-> FALSE]
    /\ UNCHANGED <<tree, reordered, aborted, other>>

\* the position in children order of rank r of the ordered index, 0 for
\* not_found()
AssocPos(n, r) == IF r > Size(n) THEN 0 ELSE OrderedIndex(n)[r]

\* b = <what the last call returned>: a Tree object made by PyPropertyTree_New
\* with PTREE_FLAG_OBJECT_NOT_OWNED holds &node and nothing of its owner; an
\* iterator holds its container and one or two container iterators
Keep ==
    /\ ~aborted
    /\ \/ ret.kind = "ref" /\ ret.at # <<>>
       \/ ret.kind = "pair"
       \/ ret.kind \in {"iter", "associter"}
          /\ op.name \in {"items", "iter", "search", "sorted"}
    /\ pre' = tree
    /\ op' = [name |-> "keep", from |-> op.name]
    /\ other' = CASE ret.kind = "ref" -> ret
                  [] ret.kind = "pair" -> RetRef(ret.at)
                  [] ret.kind = "iter" ->
                       [kind |-> "open", assoc |-> FALSE, callable |-> ret.callable,
                        cur |-> IF ret.iterator > Size(tree) THEN 0 ELSE ret.iterator,
                        stop |-> 0, changed |-> FALSE]
                  [] ret.kind = "associter" ->
                       [kind |-> "open", assoc |-> TRUE, callable |-> "none",
                        cur |-> AssocPos(tree, ret.first),
                        stop |-> AssocPos(tree, ret.second), changed |-> FALSE]
    /\ ret' = RetNone
    /\ UNCHANGED <<tree, reordered, aborted>>

\* t = Tree() while b is kept: the Tree object t named until now has no
\* reference left and tp_dealloc deletes its ptree, children included; b
\* holds no reference to it.  An iterator holds one (Py_INCREF(self)), so
\* with an iterator kept the old object would live on.
PyPropertyTree__tp_dealloc ==
    /\ ~aborted
    /\ other.kind # "open"
    /\ pre' = tree
    /\ op' = [name |-> "dealloc"]
    /\ tree' = Leaf("")
    /\ other' = IF other.kind = "ref" THEN Dangling ELSE other
    /\ ret' = RetNone
    /\ UNCHANGED <<reordered, aborted>>

\* b.value: data() of the ptree b points to.  With the node destroyed the
\* read is of freed memory: the process ends or b.value is whatever lies there
Other__get_value ==
    /\ ~aborted
    /\ other.kind \in {"owned", "ref", "dangling"}
    /\ LET call == [name |-> "b.value", handle |-> other]
       IN IF other.kind = "dangling"
          THEN \/ Abort(call) /\ UNCHANGED other
               \/ /\ pre' = tree
                  /\ op' = call
                  /\ ret' = [kind |-> "freed"]
                  /\ UNCHANGED <<tree, reordered, aborted, other>>
          ELSE /\ pre' = tree
               /\ op' = call
               /\ ret' = [kind |-> "str", str |-> Deref(other).data]
               /\ UNCHANGED <<tree, reordered, aborted, other>>

\* ++ of a container iterator at position p: the next child in children order
\* for a TreeIter, in the ordered index for an AssocTreeIter
Successor(n, assoc, p) ==
    IF assoc
    THEN LET r == CHOOSE i \in 1..Size(n) : OrderedIndex(n)[i] = p
         IN AssocPos(n, r + 1)
    ELSE IF p = Size(n) THEN 0 ELSE p + 1

\* next(b) for an iterator b that was kept.  A TreeIter stops at end() of its
\* container, an AssocTreeIter where first == second; either reads
\* iter->first and &iter->second of the child it stands at and steps on.
\* Standing at a destroyed child, or at end() with second never met, these
\* are reads of freed memory.
Other__tp_iternext ==
    /\ ~aborted
    /\ other.kind = "open"
    /\ LET call == [name |-> "b.next", changed |-> other.changed, cur |-> other.cur]
           atEnd == IF other.assoc THEN other.cur = other.stop ELSE other.cur = 0
           stop == IF other.assoc THEN other.cur
                   ELSE IterStop(tree, other.cur, other.callable)
       IN IF atEnd
          THEN /\ pre' = tree
               /\ op' = call
               /\ ret' = RetExc("StopIteration")
               /\ UNCHANGED <<tree, reordered, aborted, other>>
          ELSE IF other.cur < 1
          THEN \/ Abort(call) /\ UNCHANGED other
               \/ /\ pre' = tree
                  /\ op' = call
                  /\ ret' = [kind |-> "freed"]
                  /\ UNCHANGED <<tree, reordered, aborted, other>>
          ELSE /\ pre' = tree
               /\ op' = call
               /\ IF stop > Size(tree)
                  THEN /\ ret' = RetExc("StopIteration")
                       /\ other' = [other EXCEPT !.cur = 0]
                  ELSE /\ ret' = [kind |-> "pair", key |-> tree.kids[stop].key,
                                  at |-> <<stop>>]
                       /\ other' = [other EXCEPT !.cur = Successor(tree, other.assoc, stop)]
               /\ UNCHANGED <<tree, reordered, aborted>>

\* the index arguments tried
Indexes == (0 - MaxNodes - 2)..(MaxNodes + 1)

\* calls by key and by position on the children of self
Next ==
    \/ \E k \in Keys, x \in Scalars : PyPropertyTree_append(k, PyStr(x))
    \/ PyPropertyTree_append("a", PyOther)
    \/ \E i \in {0, 1}, k \in Keys : PyPropertyTree_insert(i, k, PyStr("x"))
    \/ PyPropertyTree_reverse
    \/ PyPropertyTree_sort
    \/ \E k \in Keys : PyPropertyTree_count(k)
    \/ \E k \in Keys : PyPropertyTree_erase(k)
    \/ \E k \in Keys : PyPropertyTree_find(k)
    \/ \E k \in Keys, d \in BOOLEAN : PyPropertyTree_pop(k, d)
    \/ \E i \in Indexes : PyPropertyTree_popitem(TRUE, i)
    \/ PyPropertyTree_popitem(FALSE, 0)
    \/ \E k \in Keys \cup Scalars : PyPropertyTree_remove(k)
    \/ \E k \in Keys : Returned_append(k, PyStr("x"))

Spec == Init /\ [][Next]_vars

\* insert with every index and value, on children placed by append and reverse
NextInsert ==
    \/ \E k \in Keys, x \in Scalars : PyPropertyTree_append(k, PyStr(x))
    \/ PyPropertyTree_reverse
    \/ \E i \in Indexes, k \in Keys, v \in PyValues : PyPropertyTree_insert(i, k, v)

SpecInsert == Init /\ [][NextInsert]_vars

\* calls by path
NextPath ==
    \/ \E k \in Keys : PyPropertyTree_append(k, PyStr("x"))
    \/ \E k \in Keys : PyPropertyTree_insert(0, k, PyStr("x"))
    \/ PyPropertyTree_reverse
    \/ PyPropertyTree_sort
    \/ \E k \in Keys : PyPropertyTree_find(k)
    \/ \E p \in Paths, v \in PathValues : PyPropertyTree_add(p, v)
    \/ \E p \in Paths, v \in PathValues : PyPropertyTree_put(p, v)
    \/ \E p \in Paths, d \in BOOLEAN : PyPropertyTree_get(p, d)
    \/ \E p \in Paths, v \in {PyStr("x"), PyNone} : PyPropertyTree_setdefault(p, v)
    \/ PyPropertyTree_add(<<"a">>, PyOther)
    \/ PyPropertyTree_put(<<"a">>, PyOther)
    \/ PyPropertyTree_setdefault(<<"a">>, PyOther)

SpecPath == Init /\ [][NextPath]_vars

\* index and the iterators, on children placed by append, insert, reverse
\* and sort
NextIter ==
    \/ \E k \in Keys, x \in Scalars : PyPropertyTree_append(k, PyStr(x))
    \/ \E i \in {0, 1}, k \in Keys : PyPropertyTree_insert(i, k, PyStr("x"))
    \/ PyPropertyTree_reverse
    \/ PyPropertyTree_sort
    \/ \E k \in Keys \cup {"x"}, s \in 0..(MaxNodes - 1), e \in 1..MaxNodes :
          PyPropertyTree_index(k, s, TRUE, e)
    \/ \E k \in Keys \cup {"x"}, s \in 0..(MaxNodes - 1) :
          PyPropertyTree_index(k, s, FALSE, 0)
    \/ PyPropertyTree_sorted
    \/ \E k \in Keys : PyPropertyTree_search(PyStr(k))
    \/ \E f \in Callables : PyPropertyTree_search(PyCallable(f))
    \/ PyPropertyTree_search(PyOther)
    \/ PyPropertyTree_AssocIter__tp_iternext
    \/ PyPropertyTree_Iter__tp_iternext

SpecIter == Init /\ [][NextIter]_vars

\* the keys b.append is called with
OtherKeys == {"a", "", DottedKey}

\* ==, !=, |, |= and += with two Tree objects
NextPair ==
    \/ \E k \in Keys : PyPropertyTree_append(k, PyStr("x"))
    \/ PyPropertyTree_reverse
    \/ \E k \in OtherKeys : Other_append(k, PyStr("y"))
    \/ PyPropertyTree__tp_init(FALSE, PyNone)
    \/ \E v \in {PyStr("x"), PyOther} : PyPropertyTree__tp_init(TRUE, v)
    \/ \E cmp \in {"Py_EQ", "Py_NE"} : PyPropertyTree__tp_richcompare(cmp)
    \/ PyPropertyTree__nb_or
    \/ PyPropertyTree__nb_inplace_or
    \/ PyPropertyTree__sq_inplace_concat

SpecPair == Init /\ [][NextPair]_vars

\* a Tree and a copy of it, each changed at the top and below
NextCopy ==
    \/ \E k \in Keys : PyPropertyTree_append(k, PyStr("x"))
    \/ PyPropertyTree_put(<<"a", Delim, "b">>, PyStr("x"))
    \/ \E k \in Keys : Other_append(k, PyStr("y"))
    \/ Other_put(<<"a", Delim, "b">>, PyStr("y"))
    \/ PyPropertyTree__copy__
    \/ PyPropertyTree__tp_init(TRUE, PyTree(tree))
    \/ \E cmp \in {"Py_EQ", "Py_NE"} : PyPropertyTree__tp_richcompare(cmp)

SpecCopy == Init /\ [][NextCopy]_vars

\* "a.b.c"
DeepPath == <<"a", Delim, "b", Delim, "c">>

\* the paths nodes are created with: "a", "a.b", "a.b.c" and "a."
CreatePaths == {<<"a">>, <<"a", Delim, "b">>, DeepPath, <<"a", Delim>>}

\* nodes created by path, and looked up
NextCreate ==
    \/ \E p \in CreatePaths, v \in PathValues : PyPropertyTree_put(p, v)
    \/ \E p \in CreatePaths, v \in PathValues : PyPropertyTree_add(p, v)
    \/ \E p \in CreatePaths \cup {<<>>}, d \in BOOLEAN : PyPropertyTree_get(p, d)

SpecCreate == Init /\ [][NextCreate]_vars

\* the values assigned: a str, None, the two bools, an int, a float and an
\* object of another type
AssignValues ==
    {PyStr("x"), PyNone, PyBool(TRUE), PyBool(FALSE), PyNum("5"), PyNum("1.5"), PyOther}

\* every call that assigns a scalar, each with a value it takes and one it
\* refuses, and the assignment to the value attribute with every kind of value
NextAssign ==
    \/ \E v \in {PyBool(TRUE), PyOther} : PyPropertyTree_put(<<"a">>, v)
    \/ \E v \in {PyNum("5"), PyOther} : PyPropertyTree_add(<<"a", Delim, "a">>, v)
    \/ \E v \in {PyNone, PyOther} : PyPropertyTree_append("a", v)
    \/ \E i \in {0, 5}, v \in {PyBool(FALSE), PyOther} : PyPropertyTree_insert(i, "a", v)
    \/ \E v \in {PyNum("5"), PyOther} : PyPropertyTree_setdefault(<<"b">>, v)
    \/ \E k \in {PyStr("a"), PyStr(""), PyInt(0), PyInt(5), PyOther},
          v \in {PyNone, PyOther} :
          PyPropertyTree_mp_ass_subscript(k, TRUE, v)
    \/ \E k \in {PyStr("a"), PyInt(-1), PyInt(5), PyOther} :
          PyPropertyTree_mp_ass_subscript(k, FALSE, PyNone)
    \/ \E v \in AssignValues : PyPropertyTree__tp_setattro("value", v)
    \/ \E a \in {"a", ""}, v \in {PyBool(TRUE), PyOther} : PyPropertyTree__tp_setattro(a, v)
    \/ \E v \in {PyStr("x"), PyNum("5")} : PyPropertyTree__set_value(v)
    \/ \E v \in {PyNum("5"), PyOther}, w \in {PyNone, PyOther} :
          PyPropertyTree_extend(<<<<"a", v>>, <<"b", w>>>>)
    \/ \E v \in {PyNum("1.5"), PyOther} : PyPropertyTree__tp_init(TRUE, v)

SpecAssign == Init /\ [][NextAssign]_vars

CompareOps == {"Py_LT", "Py_LE", "Py_EQ", "Py_NE", "Py_GE", "Py_GT"}

\* the right operands: None, the bools, ints, floats, strs and another object
Operands ==
    {PyNone, PyBool(TRUE), PyBool(FALSE), PyInt(1), PyInt(5), PyFloat(15), PyFloat(50),
     PyStr("x"), PyStr("true"), PyOther}

\* a node with every value, with and without a child, coerced and compared
NextCompare ==
    \/ \E t \in DataTexts : PyPropertyTree__set_value(PyStr(t))
    \/ PyPropertyTree_append("a", PyStr("x"))
    \/ PyPropertyTree__nb_bool
    \/ \E x \in Operands, c \in CompareOps : PyPropertyTree__tp_richcompare_object(x, c)
    \/ \E c \in {"Py_EQ", "Py_NE"} : PyPropertyTree__tp_richcompare(c)

SpecCompare == Init /\ [][NextCompare]_vars

\* the indexes of the item assignments and deletions
ItemIndexes == (0 - MaxNodes)..(MaxNodes - 1)

\* item assignment and deletion by position on children that share keys
NextItem ==
    \/ \E k \in Keys, x \in Scalars : PyPropertyTree_append(k, PyStr(x))
    \/ \E i \in ItemIndexes \cup {MaxNodes} :
          PyPropertyTree_mp_ass_subscript(PyInt(i), TRUE, PyStr("z"))
    \/ \E i \in ItemIndexes \cup {MaxNodes} :
          PyPropertyTree_mp_ass_subscript(PyInt(i), FALSE, PyNone)

SpecItem == Init /\ [][NextItem]_vars

\* trees with a value, nested children, repeated keys, empty keys and keys
\* that hold the separator, rebuilt from __reduce__
NextReduce ==
    \/ \E k \in {"a", "b", "", DottedKey}, x \in Scalars : PyPropertyTree_append(k, PyStr(x))
    \/ PyPropertyTree_put(<<"a", Delim, "a">>, PyStr("x"))
    \/ PyPropertyTree__set_value(PyStr("x"))
    \/ PyPropertyTree__reduce__

SpecReduce == Init /\ [][NextReduce]_vars

\* the text {"x":[1,2,3]}
ExampleDoc ==
    JObject(<<[key |-> "x", doc |-> JArray(<<JNumber("1"), JNumber("2"), JNumber("3")>>)]>>)

\* the texts parsed: the example, a literal in an object, an object in an
\* array, and text that is no JSON
Docs ==
    {ExampleDoc,
     JObject(<<[key |-> "a", doc |-> JLiteral("null")], [key |-> "a", doc |-> JString("x")]>>),
     JArray(<<JObject(<<>>), JLiteral("true")>>),
     JMalformed}

\* trees with and without a value, with named and unnamed children on two
\* levels, written as JSON and read back
NextJson ==
    \/ \E t \in {"", "x"} : PyPropertyTree__set_value(PyStr(t))
    \/ \E k \in {"a", "", DottedKey}, x \in {"", "x"} : PyPropertyTree_append(k, PyStr(x))
    \/ \E k \in {"a", ""} : Returned_append(k, PyStr("x"))
    \/ \E w \in {"self", "b"}, pp \in BOOLEAN : property_tree_write_json(w, pp)
    \/ \E d \in Docs : property_tree_read_json(FALSE, d)
    \/ property_tree_read_json(TRUE, JMalformed)

SpecJson == Init /\ [][NextJson]_vars

\* a tree concatenated with itself
NextSelf ==
    \/ \E k \in Keys, x \in Scalars : PyPropertyTree_append(k, PyStr(x))
    \/ \E k \in Keys : PyPropertyTree_erase(k)
    \/ PyPropertyTree__sq_inplace_concat_self

SpecSelf == Init /\ [][NextSelf]_vars

\* a Tree object or an iterator that self returned, kept and used after calls
\* that destroy children of self
NextKept ==
    \/ \E k \in Keys : PyPropertyTree_append(k, PyStr("x"))
    \/ PyPropertyTree_put(<<"a", Delim, "b">>, PyStr("x"))
    \/ PyPropertyTree_put(<<"a">>, PyStr("z"))
    \/ \E k \in Keys : PyPropertyTree_find(k)
    \/ PyPropertyTree_get(<<"a", Delim, "b">>, FALSE)
    \/ PyPropertyTree_items
    \/ PyPropertyTree__tp_iter
    \/ PyPropertyTree_sorted
    \/ PyPropertyTree_search(PyStr("a"))
    \/ PyPropertyTree_search(PyCallable("keyIsA"))
    \/ Keep
    \/ \E k \in Keys : PyPropertyTree_erase(k)
    \/ \E k \in Keys : PyPropertyTree_pop(k, FALSE)
    \/ PyPropertyTree_popitem(FALSE, 0)
    \/ PyPropertyTree_remove("x")
    \/ PyPropertyTree_clear
    \/ PyPropertyTree_mp_ass_subscript(PyInt(0), FALSE, PyNone)
    \/ PyPropertyTree__tp_dealloc
    \/ Other__get_value
    \/ Other__tp_iternext

SpecKept == Init /\ [][NextKept]_vars

(* ---- what the claims speak of ---- *)

\* a sequence without its i-th element
WithoutAt(s, i) == SubSeq(s, 1, i - 1) \o SubSeq(s, i + 1, Len(s))

\* the (key, child) pairs of a node in children order, as operator== sees them
Children(n) == Plain(n).kids

\* the segments of a path string, split at every separator
RECURSIVE Segments(_)
Segments(p) ==
    IF SepPos(p) > Len(p) THEN <<IF p = <<>> THEN "" ELSE p[1]>>
    ELSE <<ReduceKey(p)>> \o Segments(SubSeq(p, SepPos(p) + 1, Len(p)))

LeadingSegments(p) == SubSeq(Segments(p), 1, Len(Segments(p)) - 1)

LeafKey(p) == Segments(p)[Len(Segments(p))]

\* the positions reached from n by the segments, each step taking the child
\* find selects; as many positions as segments could be followed
RECURSIVE Follow(_, _)
Follow(n, segs) ==
    IF segs = <<>> \/ FindPos(n, Head(segs)) = 0 THEN <<>>
    ELSE <<FindPos(n, Head(segs))>>
           \o Follow(n.kids[FindPos(n, Head(segs))].node, Tail(segs))

\* every node of a is in b, at the same positions, with its key and value
RECURSIVE Extends(_, _)
Extends(a, b) ==
    /\ a.data = b.data
    /\ Size(a) <= Size(b)
    /\ \A i \in 1..Size(a) :
          /\ a.kids[i].key = b.kids[i].key
          /\ Extends(a.kids[i].node, b.kids[i].node)

\* every position of `at` is the first child, in children order, with the
\* key of its segment
RECURSIVE StepsFirstInOrder(_, _, _)
StepsFirstInOrder(n, p, at) ==
    \/ at = <<>>
    \/ /\ Head(at) = FirstInOrder(n, ReduceKey(p))
       /\ StepsFirstInOrder(n.kids[Head(at)].node, ReduceRest(p), Tail(at))

\* keys(): the keys of the children in children order
KeysOf(n) == [i \in 1..Size(n) |-> n.kids[i].key]

\* the keys an iterator yielded, and the positions of the children it yielded
YieldedKeys(y) == [i \in 1..Len(y) |-> y[i].key]

YieldedAt(y) == [i \in 1..Len(y) |-> y[i].at[1]]

\* how often e occurs in the sequence s
Occurrences(s, e) == Cardinality({i \in 1..Len(s) : s[i] = e})

\* strictly increasing
Increasing(s) == \A i, j \in 1..Len(s) : i < j => s[i] < s[j]

\* an iterator made by the call named c has raised StopIteration
Exhausted(kind, c) == ret.kind = kind /\ ret.call.name = c /\ ret.done

\* the yielded children with equal keys came in children order
TiesInChildrenOrder(y) ==
    \A i, j \in 1..Len(y) : (i < j /\ y[i].key = y[j].key) => y[i].at[1] < y[j].at[1]

\* the yielded children with equal keys came in the order they were linked
TiesInLinkingOrder(y) ==
    \A i, j \in 1..Len(y) :
        (i < j /\ y[i].key = y[j].key)
            => tree.kids[y[i].at[1]].ord < tree.kids[y[j].at[1]].ord

(* ---- C1 ---- *)

\* C1: erase(k) returns the value count(k) had before the call, afterwards
\* count(k) is 0, and the children whose key is not k remain in their order.
C1_EraseRemovesAll ==
    op.name = "erase" =>
        /\ ret = RetInt(CountKey(pre, op.key))
        /\ CountKey(tree, op.key) = 0
        /\ Children(tree) = SelectSeq(Children(pre), LAMBDA e : e.key # op.key)
        /\ tree.data = pre.data

\* children a, b, b: erase("b") has returned 2 and left one child
C1_Witness ==
    /\ op.name = "erase"
    /\ ret = RetInt(2)
    /\ Size(pre) = 3
    /\ Size(tree) = 1

(* ---- C2 ---- *)

\* C2: put(p, v) with a non-empty path p, followed immediately by get(p),
\* returns a node equal to v (a scalar as the node holding its string).
C2_PutThenGet ==
    (op.name = "get" /\ op.afterPut /\ op.path # <<>>) =>
        /\ ret.kind = "ref"
        /\ TreeEq(NodeAt(tree, ret.at), AsTree(op.value))

(* ---- C3 ---- *)

\* C3: add(path, value) never replaces: the new child is the last child of the
\* parent the leading segments address, it carries the leaf key and the value,
\* the parent has one more child with that key than before, every node that
\* was there is where it was, and the reference returned is the new child.
C3_AddAppends ==
    (op.name = "add" /\ ret.kind = "ref") =>
        LET lead == LeadingSegments(op.path)
            leaf == LeafKey(op.path)
            parentAt == SubSeq(ret.at, 1, Len(ret.at) - 1)
            parent == NodeAt(tree, parentAt)
            was == Follow(pre, lead)
            before == IF Len(was) = Len(lead)
                      THEN CountKey(NodeAt(pre, was), leaf) ELSE 0
        IN /\ Len(ret.at) = Len(lead) + 1
           /\ parentAt = Follow(tree, lead)
           /\ ret.at[Len(ret.at)] = Size(parent)
           /\ parent.kids[Size(parent)].key = leaf
           /\ TreeEq(NodeAt(tree, ret.at), AsTree(op.value))
           /\ CountKey(parent, leaf) = before + 1
           /\ Extends(pre, tree)
           /\ NodeCount(tree) = NodeCount(pre) + (Len(lead) - Len(was)) + 1
                                  + NodeCount(AsTree(op.value))

\* add("a.b", v) where a.b was there: a second child b under a
C3_Witness ==
    /\ op.name = "add"
    /\ ret.kind = "ref"
    /\ Len(ret.at) = 2
    /\ CountKey(NodeAt(tree, <<ret.at[1]>>), LeafKey(op.path)) = 2

(* ---- C4 ---- *)

\* C4: get on a path that does not resolve raises BadPathError when no default
\* is given and returns the default when one is given; get never changes the
\* tree.
C4_GetUnresolved ==
    op.name = "get" =>
        /\ tree = pre
        /\ IF WalkPath(pre, op.path).found
           THEN ret.kind = "ref"
           ELSE ret = IF op.hasDefault THEN RetDefault ELSE RetExc("BadPathError")

\* a get of a path that ends below an existing child, with a default
C4_Witness ==
    /\ op.name = "get"
    /\ op.hasDefault
    /\ ret = RetDefault
    /\ Len(Follow(tree, Segments(op.path))) = 1
    /\ Len(Segments(op.path)) = 2

(* ---- C5 ---- *)

\* C5: setdefault(path, value) returns the existing node and leaves the tree
\* unchanged when the path resolves; when it does not, get(path) afterwards
\* returns a node equal to value ("none" when the value is left out).
C5_SetDefault ==
    (op.name = "setdefault" /\ ret.kind = "ref") =>
        IF WalkPath(pre, op.path).found
        THEN /\ tree = pre
             /\ ret.at = WalkPath(pre, op.path).at
        ELSE /\ WalkPath(tree, op.path).found
             /\ TreeEq(NodeAt(tree, WalkPath(tree, op.path).at), AsTree(op.value))

(* ---- C6 ---- *)

PoppedAt(i) ==
    /\ Children(tree) = WithoutAt(Children(pre), i)
    /\ tree.data = pre.data
    /\ ret.kind = "owned"
    /\ TreeEq(ret.tree, pre.kids[i].node)

\* pop with no child of the key
PopAbsent ==
    /\ tree = pre
    /\ ret = IF op.hasDefault THEN RetDefault ELSE RetExc("KeyError")

\* a call on the tree pop or popitem returned leaves self alone
PoppedIsDetached ==
    (op.name = "returned.append" /\ op.from \in {"pop", "popitem"}) => tree = pre

C8_PopItem ==
    op.name = "popitem" =>
        LET n == Size(pre)
            i == IF op.given THEN op.index ELSE -1
            pos == IF i < 0 THEN n + i + 1 ELSE i + 1
        IN IF 0 - n <= i /\ i <= n - 1
           THEN /\ ret.kind = "item"
                /\ ret.key = pre.kids[pos].key
                /\ TreeEq(ret.tree, pre.kids[pos].node)
                /\ Children(tree) = WithoutAt(Children(pre), pos)
                /\ tree.data = pre.data
           ELSE /\ ret = RetExc("IndexError")
                /\ tree = pre

\* popitem(-2) on three children has removed the middle one
C8_Witness ==
    /\ op.name = "popitem"
    /\ op.given
    /\ op.index = -2
    /\ Size(pre) = 3
    /\ ret.kind = "item"
    /\ Children(tree) = <<Children(pre)[1], Children(pre)[3]>>

(* ---- C9 ---- *)

\* C9: insert(index, key, value) takes an index in [0, size] or a negative one
\* counted from the end, -1 standing for position size; the new child is at
\* the normalised position, the children before it stay and those from it on
\* move by one; an index outside raises IndexError and changes nothing.
C9_Insert ==
    (op.name = "insert" /\ Accepted(op.value)) =>
        LET n == Size(pre)
            i == IF op.index < 0 THEN op.index + n + 1 ELSE op.index
        IN IF 0 <= i /\ i <= n
           THEN /\ ret = RetRef(<<i + 1>>)
                /\ Size(tree) = n + 1
                /\ Children(tree)[i + 1] = [key |-> op.key, node |-> Plain(AsTree(op.value))]
                /\ \A j \in 1..i : Children(tree)[j] = Children(pre)[j]
                /\ \A j \in (i + 1)..n : Children(tree)[j + 1] = Children(pre)[j]
                /\ tree.data = pre.data
           ELSE /\ ret = RetExc("IndexError")
                /\ tree = pre

\* insert(-2, ...) into two children has put the new child between them
C9_Witness ==
    /\ op.name = "insert"
    /\ op.index = -2
    /\ Size(pre) = 2
    /\ ret = RetRef(<<2>>)
    /\ Children(pre)[1] # Children(pre)[2]
    /\ Children(tree)[2] # Children(pre)[1]
    /\ Children(tree)[2] # Children(pre)[2]

(* ---- C10 ---- *)

\* C10: remove(v) removes the first child, in children order, whose value
\* equals v, and only that one; it raises ValueError and leaves the tree
\* unchanged when no child's value equals v.
C10_RemoveByValue ==
    op.name = "remove" =>
        LET m == {i \in 1..Size(pre) : pre.kids[i].node.data = op.key}
            first == CHOOSE i \in m : \A j \in m : i <= j
        IN IF m = {}
           THEN /\ ret = RetExc("ValueError")
                /\ tree = pre
           ELSE /\ ret = RetNone
                /\ Children(tree) = WithoutAt(Children(pre), first)

(* ---- C11 ---- *)

\* C11: index(v, start, end) returns the zero-based position of the first
\* child at a position in [start, end) whose value equals v, raises ValueError
\* when no child in that range has the value v, and never changes the tree.
C11_IndexByValue ==
    op.name = "index" =>
        LET m == {i \in op.start..(op.end - 1) :
                     i < Size(pre) /\ pre.kids[i + 1].node.data = op.key}
        IN /\ tree = pre
           /\ ret = IF m = {} THEN RetExc("ValueError")
                    ELSE RetInt(CHOOSE i \in m : \A j \in m : i <= j)

(* ---- C12 ---- *)

\* C12: after sort() the keys of the children are the key sequence a
\* traversal of sorted() yields, sort() keeps the multiset of children, and a
\* second sort() leaves the children order as the first left it.
C12_SortThenSorted ==
    /\ op.name = "sort" =>
          /\ \A i \in 1..Size(pre) :
                Occurrences(Children(tree), Children(pre)[i])
                    = Occurrences(Children(pre), Children(pre)[i])
          /\ Size(tree) = Size(pre)
          /\ tree.data = pre.data
          /\ op.again => Children(tree) = Children(pre)
    /\ (Exhausted("associter", "sorted") /\ ret.call.afterSort) =>
          YieldedKeys(ret.yielded) = KeysOf(tree)

\* a second sort() of three children, two of them with the same key and
\* different values
C12_Witness ==
    /\ op.name = "sort"
    /\ op.again
    /\ reordered
    /\ Size(tree) = 3
    /\ \E i \in 1..2 : /\ tree.kids[i].key = tree.kids[i + 1].key
                       /\ tree.kids[i].node # tree.kids[i + 1].node
                       /\ tree.kids[i].ord > tree.kids[i + 1].ord

(* ---- C13 ---- *)

\* what C13 says of a full traversal of sorted() apart from the ties: every
\* child once, the keys not decreasing, the tree left as it was
SortedYieldsAll ==
    /\ Exhausted("associter", "sorted") =>
          /\ Len(ret.yielded) = Size(tree)
          /\ {YieldedAt(ret.yielded)[i] : i \in 1..Len(ret.yielded)} = 1..Size(tree)
          /\ \A i \in 1..Len(ret.yielded) :
                ret.yielded[i].key = tree.kids[ret.yielded[i].at[1]].key
          /\ \A i, j \in 1..Len(ret.yielded) :
                i < j => KeyRank(ret.yielded[i].key) <= KeyRank(ret.yielded[j].key)
    /\ (op.name = "sorted" \/ (op.name = "next" /\ op.call.name = "sorted")) =>
          tree = pre

SearchYieldsMatches ==
    /\ (Exhausted("associter", "search")) =>
          /\ Len(ret.yielded) = CountKey(tree, ret.call.arg.str)
          /\ \A i \in 1..Len(ret.yielded) : ret.yielded[i].key = ret.call.arg.str
          /\ {YieldedAt(ret.yielded)[i] : i \in 1..Len(ret.yielded)}
                = Matching(tree, ret.call.arg.str)
    /\ (Exhausted("iter", "search")) =>
          /\ {YieldedAt(ret.yielded)[i] : i \in 1..Len(ret.yielded)}
                = {j \in 1..Size(tree) :
                      Call(ret.call.arg.str, tree.kids[j].key, tree.kids[j].node)}
          /\ Increasing(YieldedAt(ret.yielded))
          /\ \A i \in 1..Len(ret.yielded) :
                ret.yielded[i].key = tree.kids[ret.yielded[i].at[1]].key

KeyPut(n, k, c) ==
    IF FindPos(n, k) # 0 THEN [n EXCEPT !.kids[FindPos(n, k)].node = c]
    ELSE PushBack(n, k, c)

\* the children put one after the other
RECURSIVE KeyPutAll(_, _)
KeyPutAll(n, kids) ==
    IF kids = <<>> THEN n
    ELSE KeyPutAll(KeyPut(n, Head(kids).key, Head(kids).node), Tail(kids))

\* C15: a | b returns a new tree equal to a copy of a over which every
\* top-level child (k, c) of b has been put in b's order, and leaves a and b
\* unchanged; a |= b leaves a equal to what a | b returns and b unchanged.
C15_OrPutsTopLevelKeys ==
    /\ op.name = "or" =>
          /\ ~aborted
          /\ ret.kind = "owned"
          /\ TreeEq(ret.tree, KeyPutAll(pre, op.right.kids))
          /\ tree = pre
          /\ Deref(other) = op.right
    /\ op.name = "ior" =>
          /\ ~aborted
          /\ TreeEq(tree, KeyPutAll(pre, op.right.kids))
          /\ Deref(other) = op.right

(* ---- C16 ---- *)

\* C16: a += b, b another tree than a, appends copies of b's children in b's
\* order after a's children: len(a) grows by len(b), a's children stay where
\* they were, no child is merged with another of its key, b is unchanged.
C16_InplaceConcat ==
    op.name = "iadd" =>
        /\ Size(tree) = Size(pre) + Size(op.right)
        /\ \A i \in 1..Size(pre) : Children(tree)[i] = Children(pre)[i]
        /\ \A j \in 1..Size(op.right) :
              Children(tree)[Size(pre) + j] = Children(op.right)[j]
        /\ tree.data = pre.data
        /\ Deref(other) = op.right
        /\ ret = RetRef(<<>>)

\* a += b where both had a child with the key "a"
C16_Witness ==
    /\ op.name = "iadd"
    /\ CountKey(pre, "a") = 1
    /\ CountKey(op.right, "a") = 1
    /\ CountKey(tree, "a") = 2
    /\ Size(op.right) = 2

(* ---- C17 ---- *)

\* equal values, as many children, and position by position the same key
\* and, recursively, an equal child
RECURSIVE StructEq(_, _)
StructEq(a, b) ==
    /\ a.data = b.data
    /\ Size(a) = Size(b)
    /\ \A i \in 1..Size(a) :
          /\ a.kids[i].key = b.kids[i].key
          /\ StructEq(a.kids[i].node, b.kids[i].node)

\* C17: t1 == t2 is true exactly when the values are equal and the children
\* agree position by position in key and, recursively, in child; t1 != t2 is
\* its negation; the operands are left alone.
C17_StructuralEquality ==
    op.name = "richcompare" =>
        /\ ret = RetBool(IF op.cmp = "Py_EQ" THEN StructEq(pre, op.right)
                         ELSE ~StructEq(pre, op.right))
        /\ tree = pre
        /\ Deref(other) = op.right

\* two trees with the same two children in opposite order have compared
\* unequal
C17_Witness ==
    /\ op.name = "richcompare"
    /\ op.cmp = "Py_EQ"
    /\ ret = RetBool(FALSE)
    /\ Size(tree) = 2
    /\ Children(tree)[1] # Children(tree)[2]
    /\ Children(op.right) = <<Children(tree)[2], Children(tree)[1]>>

(* ---- C18 ---- *)

\* the ptree b works on after the step
DerefNext == IF other'.kind = "owned" THEN other'.tree ELSE NodeAt(tree', other'.at)

\* C18: copy(t) and Tree(t) are equal to t and leave t as it was; afterwards
\* no call on t, at any depth, changes the copy and no call on the copy
\* changes t.
C18_CopyIndependent ==
    [][ /\ (op'.name = "copy" \/ (op'.name = "Tree" /\ op'.given)) =>
              /\ StructEq(DerefNext, tree)
              /\ tree' = tree
        /\ op'.name \in {"append", "put"} => DerefNext = Deref(other)
        /\ op'.name \in {"b.append", "b.put"} => tree' = tree ]_vars

\* the copy of a tree with child a = "x" has got a child below a, the tree
\* has not
C18_Witness ==
    /\ op.name = "b.put"
    /\ tree = pre
    /\ Size(tree) = 1
    /\ tree.kids[1].node = Leaf("x")
    /\ Size(Deref(other)) = 1
    /\ Deref(other).kids[1].node.data = "x"
    /\ Size(Deref(other).kids[1].node) = 1

(* ---- C19 ---- *)

\* a chain of nodes with one child each, keyed by the segments, the last
\* node equal to v and the others with an empty value
RECURSIVE Chain(_, _, _)
Chain(n, segs, v) ==
    IF segs = <<>> THEN TreeEq(n, v)
    ELSE /\ n.data = ""
         /\ Size(n) = 1
         /\ n.kids[1].key = Head(segs)
         /\ Chain(n.kids[1].node, Tail(segs), v)

\* C19: put or add of "a.b.c" with a value v on an empty tree creates three
\* nested levels of one child each (a, b, c), the two upper nodes with an
\* empty value, and get("a.b.c") returns the innermost node, whose value is v;
\* the node a path-creating call returns is the node a following get on the
\* same path string returns.
C19_CreatedIsResolved ==
    [][ /\ (op'.name \in {"put", "add"} /\ op'.path = DeepPath /\ pre' = Leaf("")) =>
              /\ ret'.kind = "ref"
              /\ Chain(tree', Segments(DeepPath), AsTree(op'.value))
              /\ WalkPath(tree', DeepPath) = [found |-> TRUE, at |-> ret'.at]
        /\ (op.name \in {"put", "add"} /\ Accepted(op.value)
               /\ op'.name = "get" /\ op'.path = op.path) =>
              /\ ret.kind = "ref"
              /\ ret' = ret ]_vars

(* ---- C20 ---- *)

\* C20: get("") raises no BadPathError and returns a reference to the node
\* of t itself, whatever t holds, and leaves t unchanged.
C20_GetEmptyPath ==
    (op.name = "get" /\ op.path = <<>>) =>
        /\ ret = RetRef(<<>>)
        /\ NodeAt(tree, ret.at) = pre
        /\ tree = pre

\* get("") with no default on a tree with children at two levels
C20_Witness ==
    /\ op.name = "get"
    /\ op.path = <<>>
    /\ ~op.hasDefault
    /\ ret.kind = "ref"
    /\ Size(tree) = 2
    /\ Size(tree.kids[1].node) = 1

(***************************************************************************)
(* C21  Every operation that assigns a scalar (put, add, append, insert,   *)
(* setdefault, extend, item and attribute assignment, the constructor)     *)
(* stores True as "true", False as "false", None as "none", a number as    *)
(* its decimal text and a string as it is, and refuses a value of another  *)
(* type that is no Tree with an error; a refused put, add, append, insert  *)
(* or setdefault leaves the tree as it was.                                *)
(***************************************************************************)

IsScalar(v) == v.ty \in {"none", "bool", "number", "str"}

\* the text the claim has a scalar stored as
ScalarText(v) ==
    CASE v.ty = "none" -> "none"
      [] v.ty = "bool" -> (IF v.str = "True" THEN "true" ELSE "false")
      [] v.ty \in {"number", "str"} -> v.str

\* the last call assigned the scalar v to the node at positions `at`, or
\* refused v when it is no scalar and no Tree
Assigned(v, at, okKind) ==
    IF IsScalar(v)
    THEN ret.kind = okKind /\ NodeAt(tree, at).data = ScalarText(v)
    ELSE v.ty = "tree" \/ ret.kind = "exc"

\* the positions of the node that put_child(p, ...) has assigned in the tree
PutAt(p) == IF p = <<>> THEN <<FindPos(tree, "")>> ELSE WalkPath(tree, p).at

C21_ScalarStored ==
    ~aborted =>
      /\ op.name \in {"put", "add", "append"} =>
            /\ Assigned(op.value, IF ret.kind = "ref" THEN ret.at ELSE <<>>, "ref")
            /\ ret.kind = "exc" => tree = pre
      /\ (op.name = "insert" /\ ret # RetExc("IndexError")) =>
            /\ Assigned(op.value, IF ret.kind = "ref" THEN ret.at ELSE <<>>, "ref")
            /\ ret.kind = "exc" => tree = pre
      /\ (op.name = "setdefault" /\ ~WalkPath(pre, op.path).found) =>
            /\ Assigned(op.value, IF ret.kind = "ref" THEN ret.at ELSE <<>>, "ref")
            /\ ret.kind = "exc" => tree = pre
      /\ (op.name = "setitem" /\ ret \notin {RetExc("IndexError"), RetExc("KeyError")}) =>
            Assigned(op.value,
                     IF ret.kind = "none"
                     THEN PutAt(KeyPath(IF op.key.ty = "int"
                                        THEN pre.kids[op.key.n + 1].key
                                        ELSE op.key.str))
                     ELSE <<>>, "none")
      /\ op.name = "setattr" =>
            Assigned(op.value,
                     IF ret.kind = "none" /\ op.attr # "value"
                     THEN PutAt(KeyPath(op.attr)) ELSE <<>>, "none")
      /\ op.name = "extend" =>
            /\ Assigned(op.items[1][2], <<Size(pre) + 1>>, "none")
               \/ (ret.kind = "exc" /\ ~IsScalar(op.items[2][2]))
            /\ Assigned(op.items[2][2], <<Size(pre) + 2>>, "none")
               \/ (ret.kind = "exc" /\ ~IsScalar(op.items[1][2]))
      /\ (op.name = "Tree" /\ op.given) =>
            IF IsScalar(op.value)
            THEN ret.kind = "none" /\ Deref(other).data = ScalarText(op.value)
            ELSE ret.kind = "exc"

(***************************************************************************)
(* C23  Coercing a node to boolean (bool(t), or comparing t with True or   *)
(* False) succeeds only when the stored value is exactly "true" or         *)
(* "false"; for every other stored string it raises BadDataError, and the  *)
(* tree is unchanged.                                                      *)
(***************************************************************************)

\* the last call coerced the value of self to a bool
Coerced == op.name = "bool" \/ (op.name = "compare" /\ op.right.ty = "bool")

C23_BoolOnlyTrueFalse ==
    Coerced =>
      /\ tree = pre
      /\ IF pre.data \in {"true", "false"}
         THEN ret.kind = "bool"
         ELSE ret = RetExc("BadDataError")

(***************************************************************************)
(* C28  For every tree t and every object x for which the comparison       *)
(* raises no error (a Tree, None, a bool, an int, a float, a str or an     *)
(* object of another type), exactly one of t == x and t != x is true.      *)
(***************************************************************************)

C28_EqOrNe ==
    (/\ op.name = "compare"
     /\ op.cmp = "Py_NE"
     /\ op.afterEq
     /\ op.eq.kind # "exc"
     /\ ret.kind # "exc")
        => /\ op.eq.kind = "bool"
           /\ ret.kind = "bool"
           /\ op.eq.b # ret.b

(***************************************************************************)
(* C27  t[i] = v with an integer i acts on the child at position i, also   *)
(* when several children share a key: afterwards the child at position i   *)
(* equals v, len(t) is unchanged and every other child is unchanged; and   *)
(* del t[i] removes exactly the child at position i.                       *)
(***************************************************************************)

\* the position, from 1, that the index of the last call names in pre; 0 when
\* it is out of range
ItemPos ==
    LET i == IF op.key.n < 0 THEN op.key.n + Size(pre) ELSE op.key.n
    IN IF i >= 0 /\ i < Size(pre) THEN i + 1 ELSE 0

C27_ItemAtPosition ==
    (/\ op.name \in {"setitem", "delitem"}
     /\ op.key.ty = "int"
     /\ ItemPos # 0
     /\ ~aborted)
        => IF op.name = "setitem"
           THEN /\ ret.kind = "none"
                /\ Size(tree) = Size(pre)
                /\ \A j \in 1..Size(pre) :
                      Plain(tree).kids[j] =
                          IF j = ItemPos
                          THEN [key |-> pre.kids[j].key, node |-> Plain(AsTree(op.value))]
                          ELSE Plain(pre).kids[j]
           ELSE /\ ret.kind = "none"
                /\ Plain(tree).kids = WithoutAt(Plain(pre).kids, ItemPos)

(***************************************************************************)
(* C30  Rebuilding a tree from the output of __reduce__ (Tree(value) for   *)
(* the value argument, then tree[key] = child for each pair of the item    *)
(* iterator) gives a tree equal to the original, for every tree, also one  *)
(* with repeated keys, empty keys or keys that hold the path delimiter.    *)
(***************************************************************************)

C30_ReduceRebuilds ==
    op.name = "reduce" => (~aborted /\ TreeEq(Deref(other), tree))

(***************************************************************************)
(* C24  json.dumps (and json.dump) fails with JSONParserError, producing   *)
(* no text, for every tree in which some node has both a non-empty value   *)
(* and at least one child, and succeeds for every tree in which no node    *)
(* has both.                                                               *)
(***************************************************************************)

\* some node of n, n itself or one below, has a value and a child
RECURSIVE HasValueAndChild(_)
HasValueAndChild(n) ==
    \/ n.data # "" /\ n.kids # <<>>
    \/ \E i \in 1..Size(n) : HasValueAndChild(n.kids[i].node)

C24_DumpsFailsOnValueAndChild ==
    op.name = "dumps" =>
        IF HasValueAndChild(op.arg)
        THEN ret = RetExc("JSONParserError")
        ELSE ret.kind = "text"

(***************************************************************************)
(* C25  JSON round trip: for every tree t in which no node has both a      *)
(* non-empty value and children, json.loads(json.dumps(t, False)) == t; in *)
(* particular {"x":[1,2,3]} parses to one child keyed x with three         *)
(* empty-keyed children valued "1", "2", "3", and dumping that tree and    *)
(* parsing it again gives an equal tree.                                   *)
(***************************************************************************)

\* the tree the claim has {"x":[1,2,3]} parse to
ExampleTree ==
    [data |-> "",
     kids |-> <<[key |-> "x",
                 node |-> [data |-> "",
                           kids |-> <<[key |-> "", node |-> [data |-> "1", kids |-> <<>>]],
                                      [key |-> "", node |-> [data |-> "2", kids |-> <<>>]],
                                      [key |-> "", node |-> [data |-> "3", kids |-> <<>>]]>>]]>>]

C25_JsonRoundTrip ==
    op.name = "loads" =>
      /\ (op.fromDumps /\ ~HasValueAndChild(op.source)) =>
            (ret.kind # "exc" /\ TreeEq(Deref(other), op.source))
      /\ (~op.fromDumps /\ op.doc = ExampleDoc) => Plain(Deref(other)) = ExampleTree

(***************************************************************************)
(* C29  t += t on a tree with n >= 1 children terminates and leaves t with *)
(* exactly 2n children, the original sequence followed by a copy of it.    *)
(***************************************************************************)

C29_SelfConcatDoubles ==
    (op.name = "iadd_self" /\ Size(pre) >= 1) =>
        /\ ~aborted
        /\ ret = RetRef(<<>>)
        /\ Plain(tree).kids = Plain(pre).kids \o Plain(pre).kids

(***************************************************************************)
(* C22  After erase, pop, popitem, remove, clear or item deletion took a   *)
(* child away while an iterator was open, the next step of that iterator   *)
(* raises: a detected failure or the end of the iteration.  It yields no   *)
(* pair, ends no process and reads no child that was removed.              *)
(***************************************************************************)

C22_OpenIteratorInvalidated ==
    (op.name = "b.next" /\ op.changed) => (~aborted /\ ret.kind = "exc")

(***************************************************************************)
(* C26  Whenever a Tree object that does not own its ptree is used, the    *)
(* node it points to exists: no erase, pop, popitem, remove, clear, item   *)
(* deletion, replacement by put or deallocation of the owner leaves it     *)
(* pointing to a destroyed node.                                           *)
(***************************************************************************)

C26_HandleNodeExists ==
    op.name = "b.value" => op.handle.kind # "dangling"

====
